---- MODULE Spec2Model ----
(***************************************************************************)
(* Model of backend/app/services/security_filter.py: the blocked-keyword   *)
(* list, the five PII patterns and SecurityFilter.filter_message,          *)
(* add_blocked_keyword and remove_blocked_keyword.                         *)
(*                                                                         *)
(* A text is a sequence of characters.  An ASCII character is the string   *)
(* holding it; a Hangul syllable is written "k_" followed by its           *)
(* romanisation ("k_hae", "k_king" are the two syllables of the first      *)
(* blocked keyword).                                                       *)
(***************************************************************************)
EXTENDS Integers, Sequences, FiniteSets, TLC

(***************************************************************************)
(* Characters and the classes the patterns and str.lower() use.            *)
(***************************************************************************)
Digit == {"0", "1", "2", "3", "4", "5", "6", "7", "8", "9"}

Upper == {"A", "B", "C", "D", "E", "F", "G", "H", "I", "J", "K", "L", "M",
          "N", "O", "P", "Q", "R", "S", "T", "U", "V", "W", "X", "Y", "Z"}

Lower == {"a", "b", "c", "d", "e", "f", "g", "h", "i", "j", "k", "l", "m",
          "n", "o", "p", "q", "r", "s", "t", "u", "v", "w", "x", "y", "z"}

Hangul == {"k_hae", "k_king", "k_keu", "k_raek", "k_bul", "k_beop", "k_do",
           "k_yong", "k_gwan", "k_ri", "k_ja", "k_bi", "k_mil", "k_beon",
           "k_ho", "k_jeop", "k_sok", "k_jeong", "k_bo", "k_ki", "k_i",
           "k_me", "k_il", "k_jeon", "k_hwa", "k_ju", "k_min", "k_ka",
           "k_deu", "k_so", "k_ip", "k_geum", "k_ji", "k_doen", "k_wo",
           "k_ga", "k_po", "k_ham", "k_doe", "k_eo", "k_it", "k_seup",
           "k_ni", "k_da", "k_gae", "k_in", "k_geon", "k_ma", "k_seu",
           "k_doem"}

\* \w of a str pattern: Unicode letters and digits, and the underscore.
WordChar == Digit \cup Upper \cup Lower \cup Hangul \cup {"_"}

\* str.lower() on one character: only cased letters change.
LowerChar(c) ==
    CASE c = "A" -> "a" [] c = "B" -> "b" [] c = "C" -> "c" [] c = "D" -> "d"
      [] c = "E" -> "e" [] c = "F" -> "f" [] c = "G" -> "g" [] c = "H" -> "h"
      [] c = "I" -> "i" [] c = "J" -> "j" [] c = "K" -> "k" [] c = "L" -> "l"
      [] c = "M" -> "m" [] c = "N" -> "n" [] c = "O" -> "o" [] c = "P" -> "p"
      [] c = "Q" -> "q" [] c = "R" -> "r" [] c = "S" -> "s" [] c = "T" -> "t"
      [] c = "U" -> "u" [] c = "V" -> "v" [] c = "W" -> "w" [] c = "X" -> "x"
      [] c = "Y" -> "y" [] c = "Z" -> "z" [] OTHER -> c

\* str.lower()
ToLower(s) == [i \in 1..Len(s) |-> LowerChar(s[i])]

\* needle in hay (substring containment); the empty needle is in every text.
Contains(hay, needle) ==
    \E i \in 0..(Len(hay) - Len(needle)) :
        \A j \in 1..Len(needle) : hay[i + j] = needle[j]

(***************************************************************************)
(* Regular expressions.  A pattern is a sequence of alternatives (tried in *)
(* order), an alternative a sequence of items:                             *)
(*   [k |-> "b"]                      the assertion \b                     *)
(*   [k |-> "cls", set, min, max]     a greedy repetition of a class;      *)
(*                                    max = Unbounded for + and {n,}       *)
(*   [k |-> "alt", alts]              a group of literal alternatives      *)
(* Positions are 1-based; a match is the pair of its start and the         *)
(* position after its last character; NoMatch is 0.                        *)
(***************************************************************************)
Unbounded == -1
NoMatch == 0

B == [k |-> "b"]
Cls(set, min, max) == [k |-> "cls", set |-> set, min |-> min, max |-> max]
Alt(alts) == [k |-> "alt", alts |-> alts]

\* \b at position pos: exactly one of the characters around it is a word
\* character (the outside of the text counts as a non-word character).
AtBoundary(s, pos) ==
    LET before == pos > 1 /\ s[pos - 1] \in WordChar
        after == pos <= Len(s) /\ s[pos] \in WordChar
    IN before /= after

\* The number of characters from pos on that are in set, at most max.
RECURSIVE Run(_, _, _, _)
Run(s, pos, set, max) ==
    IF max = 0 \/ pos > Len(s) \/ s[pos] \notin set THEN 0
    ELSE 1 + Run(s, pos + 1, set, IF max = Unbounded THEN max ELSE max - 1)

\* The literal lit stands at position pos.
LitAt(s, pos, lit) ==
    /\ pos + Len(lit) - 1 <= Len(s)
    /\ \A j \in 1..Len(lit) : s[pos + j - 1] = lit[j]

\* Backtracking match of items[k..] at pos: the end of the first match in
\* the engine's order (greedy repetitions give back one character at a time).
RECURSIVE MatchItems(_, _, _, _)
RECURSIVE TryCounts(_, _, _, _, _, _)
RECURSIVE TryAlts(_, _, _, _, _)
MatchItems(items, k, s, pos) ==
    IF k > Len(items) THEN pos
    ELSE LET it == items[k] IN
         CASE it.k = "b" ->
                IF AtBoundary(s, pos) THEN MatchItems(items, k + 1, s, pos)
                ELSE NoMatch
           [] it.k = "cls" ->
                TryCounts(items, k, s, pos, Run(s, pos, it.set, it.max), it.min)
           [] it.k = "alt" ->
                TryAlts(items, k, s, pos, 1)

TryCounts(items, k, s, pos, c, min) ==
    IF c < min THEN NoMatch
    ELSE LET r == MatchItems(items, k + 1, s, pos + c) IN
         IF r /= NoMatch THEN r
         ELSE TryCounts(items, k, s, pos, c - 1, min)

TryAlts(items, k, s, pos, a) ==
    IF a > Len(items[k].alts) THEN NoMatch
    ELSE LET lit == items[k].alts[a]
             r == IF LitAt(s, pos, lit)
                  THEN MatchItems(items, k + 1, s, pos + Len(lit))
                  ELSE NoMatch
         IN IF r /= NoMatch THEN r ELSE TryAlts(items, k, s, pos, a + 1)

\* The pattern's match that starts at pos: the first alternative that matches.
RECURSIVE MatchAt(_, _, _, _)
MatchAt(pattern, a, s, pos) ==
    IF a > Len(pattern) THEN NoMatch
    ELSE LET r == MatchItems(pattern[a], 1, s, pos) IN
         IF r /= NoMatch THEN r ELSE MatchAt(pattern, a + 1, s, pos)

\* The non-overlapping matches of pattern in s from position pos on, left to
\* right, as <<start, end>> pairs (the scan of findall and of sub).
RECURSIVE Spans(_, _, _)
Spans(pattern, s, pos) ==
    IF pos > Len(s) THEN <<>>
    ELSE LET e == MatchAt(pattern, 1, s, pos) IN
         IF e = NoMatch THEN Spans(pattern, s, pos + 1)
         ELSE <<(<<pos, e>>)>> \o Spans(pattern, s, e)

\* pattern.findall(s): the matched substrings (the patterns have no
\* capturing group).
FindAll(pattern, s) ==
    LET sp == Spans(pattern, s, 1)
    IN [i \in 1..Len(sp) |-> SubSeq(s, sp[i][1], sp[i][2] - 1)]

\* pattern.sub(repl, s): every match replaced by repl.
RECURSIVE SubFrom(_, _, _, _)
SubFrom(pattern, repl, s, pos) ==
    IF pos > Len(s) THEN <<>>
    ELSE LET e == MatchAt(pattern, 1, s, pos) IN
         IF e = NoMatch THEN <<s[pos]>> \o SubFrom(pattern, repl, s, pos + 1)
         ELSE repl \o SubFrom(pattern, repl, s, e)

Sub(pattern, repl, s) == SubFrom(pattern, repl, s, 1)

(***************************************************************************)
(* class Patterns                                                          *)
(***************************************************************************)
Chars1(c) == Cls({c}, 1, 1)
Optional(set) == Cls(set, 0, 1)

EmailLocal == Upper \cup Lower \cup Digit \cup {".", "_", "%", "+", "-"}
EmailDomain == Upper \cup Lower \cup Digit \cup {".", "-"}
\* [A-Z|a-z]: inside a class the bar is a literal character.
EmailTld == Upper \cup Lower \cup {"|"}

\* \b[A-Za-z0-9._%+-]+@[A-Za-z0-9.-]+\.[A-Z|a-z]{2,}\b
EMAIL ==
    << << B, Cls(EmailLocal, 1, Unbounded), Chars1("@"),
          Cls(EmailDomain, 1, Unbounded), Chars1("."),
          Cls(EmailTld, 2, Unbounded), B >> >>

MobilePrefixes ==
    << <<"0", "1", "0">>, <<"0", "1", "1">>, <<"0", "1", "6">>,
       <<"0", "1", "7">>, <<"0", "1", "8">>, <<"0", "1", "9">> >>

\* \b(?:010|011|016|017|018|019)-?\d{3,4}-?\d{4}\b|\b0\d{1,2}-?\d{3,4}-?\d{4}\b
PHONE ==
    << << B, Alt(MobilePrefixes), Optional({"-"}), Cls(Digit, 3, 4),
          Optional({"-"}), Cls(Digit, 4, 4), B >>,
       << B, Chars1("0"), Cls(Digit, 1, 2), Optional({"-"}), Cls(Digit, 3, 4),
          Optional({"-"}), Cls(Digit, 4, 4), B >> >>

\* Mutant: the third and fourth digits have to be a month.
SsnWithMonth ==
    << << B, Cls(Digit, 2, 2),
          Alt(<< <<"0", "1">>, <<"0", "2">>, <<"0", "3">>, <<"0", "4">>,
                 <<"0", "5">>, <<"0", "6">>, <<"0", "7">>, <<"0", "8">>,
                 <<"0", "9">>, <<"1", "0">>, <<"1", "1">>, <<"1", "2">> >>),
          Cls(Digit, 2, 2), Optional({"-"}), Cls(Digit, 7, 7), B >> >>

\* \b\d{6}-?\d{7}\b
SSN == << << B, Cls(Digit, 6, 6), Optional({"-"}), Cls(Digit, 7, 7), B >> >>

\* \b\d{4}[- ]?\d{4}[- ]?\d{4}[- ]?\d{4}\b
CARD ==
    << << B, Cls(Digit, 4, 4), Optional({"-", " "}), Cls(Digit, 4, 4),
          Optional({"-", " "}), Cls(Digit, 4, 4), Optional({"-", " "}),
          Cls(Digit, 4, 4), B >> >>

\* \b(?:\d{1,3}\.){3}\d{1,3}\b
IP_ADDRESS ==
    << << B, Cls(Digit, 1, 3), Chars1("."), Cls(Digit, 1, 3), Chars1("."),
          Cls(Digit, 1, 3), Chars1("."), Cls(Digit, 1, 3), B >> >>

(***************************************************************************)
(* BLOCKED_KEYWORDS, the placeholders and the texts of the f-strings       *)
(***************************************************************************)
KwHacking == <<"k_hae", "k_king">>
KwCrack == <<"k_keu", "k_raek">>
KwIllegal == <<"k_bul", "k_beop">>
KwTheft == <<"k_do", "k_yong">>
KwAdminPassword ==
    <<"k_gwan", "k_ri", "k_ja", " ", "k_bi", "k_mil", "k_beon", "k_ho">>
KwDbAccess == <<"D", "B", " ", "k_jeop", "k_sok", "k_jeong", "k_bo">>
KwApiKey == <<"A", "P", "I", " ", "k_ki">>

BLOCKED_KEYWORDS ==
    <<KwHacking, KwCrack, KwIllegal, KwTheft, KwAdminPassword, KwDbAccess,
      KwApiKey>>

EmailMask == <<"[", "k_i", "k_me", "k_il", "]">>
PhoneMask == <<"[", "k_jeon", "k_hwa", "k_beon", "k_ho", "]">>
SsnMask == <<"[", "k_ju", "k_min", "k_beon", "k_ho", "]">>
CardMask == <<"[", "k_ka", "k_deu", "k_beon", "k_ho", "]">>
IpMask == <<"[", "I", "P", "k_ju", "k_so", "]">>

EmailLabel == <<"k_i", "k_me", "k_il", ":", " ">>
PhoneLabel == <<"k_jeon", "k_hwa", "k_beon", "k_ho", ":", " ">>
SsnLabel == <<"k_ju", "k_min", "k_beon", "k_ho", ":", " ">>
CardLabel == <<"k_ka", "k_deu", "k_beon", "k_ho", ":", " ">>
IpLabel == <<"I", "P", "k_ju", "k_so", ":", " ">>

BlockReasonPrefix ==
    <<"k_geum", "k_ji", "k_doen", " ", "k_ki", "k_wo", "k_deu", "k_ga", " ",
      "k_po", "k_ham", "k_doe", "k_eo", " ", "k_it", "k_seup", "k_ni",
      "k_da", ":", " ">>
MaskReasonHead == <<"k_gae", "k_in", "k_jeong", "k_bo", " ">>
MaskReasonTail == <<"k_geon", " ", "k_ma", "k_seu", "k_king", "k_doem">>

DigitChar(d) ==
    CASE d = 0 -> "0" [] d = 1 -> "1" [] d = 2 -> "2" [] d = 3 -> "3"
      [] d = 4 -> "4" [] d = 5 -> "5" [] d = 6 -> "6" [] d = 7 -> "7"
      [] d = 8 -> "8" [] d = 9 -> "9"

\* str(n) of a natural number, as the f-string formats len(detected_items).
RECURSIVE Decimal(_)
Decimal(n) ==
    IF n < 10 THEN <<DigitChar(n)>>
    ELSE Decimal(n \div 10) \o <<DigitChar(n % 10)>>

(***************************************************************************)
(* SecurityFilter.filter_message                                           *)
(***************************************************************************)
\* Mutant: the containment test without any lower().
KeywordMatchesCaseSensitive(keyword, text) == Contains(text, keyword)

\* Mutant: the keyword is lowered and the text is not.
KeywordMatchesTextNotLowered(keyword, text) ==
    Contains(text, ToLower(keyword))

\* keyword.lower() in text.lower()
KeywordMatches(keyword, text) == Contains(ToLower(text), ToLower(keyword))

\* Mutant: the loop keeps the last keyword that matches instead of
\* returning at the first.
LastBlocked(keywords, text, i) ==
    LET hits == {j \in i..Len(keywords) : KeywordMatches(keywords[j], text)}
    IN IF hits = {} THEN 0 ELSE CHOOSE j \in hits : \A h \in hits : h <= j

\* The loop over self.blocked_keywords: the index of the first keyword that
\* matches, 0 when the loop ends without a return.
RECURSIVE FirstBlocked(_, _, _)
FirstBlocked(keywords, text, i) ==
    IF i > Len(keywords) THEN 0
    ELSE IF KeywordMatches(keywords[i], text) THEN i
    ELSE FirstBlocked(keywords, text, i + 1)

\* Mutant: findall runs on the running masked_text.
MaskStepFindInMasked(pattern, label, mask, text, acc) ==
    LET found == FindAll(pattern, acc.masked_text) IN
    IF found /= <<>>
    THEN [detected_items |->
              acc.detected_items \o [i \in 1..Len(found) |-> label \o found[i]],
          masked_text |-> Sub(pattern, mask, acc.masked_text)]
    ELSE acc

\* Mutant: the substitution is applied to the original text.
MaskStepSubOriginal(pattern, label, mask, text, acc) ==
    LET found == FindAll(pattern, text) IN
    IF found /= <<>>
    THEN [detected_items |->
              acc.detected_items \o [i \in 1..Len(found) |-> label \o found[i]],
          masked_text |-> Sub(pattern, mask, text)]
    ELSE acc

\* pattern.sub(repl, s, count=1): only the first match is replaced.
RECURSIVE SubFirstFrom(_, _, _, _)
SubFirstFrom(pattern, repl, s, pos) ==
    IF pos > Len(s) THEN <<>>
    ELSE LET e == MatchAt(pattern, 1, s, pos) IN
         IF e = NoMatch
         THEN <<s[pos]>> \o SubFirstFrom(pattern, repl, s, pos + 1)
         ELSE repl \o SubSeq(s, e, Len(s))

\* Mutant: the substitution stops after the first match.
MaskStepSubFirst(pattern, label, mask, text, acc) ==
    LET found == FindAll(pattern, text) IN
    IF found /= <<>>
    THEN [detected_items |->
              acc.detected_items \o [i \in 1..Len(found) |-> label \o found[i]],
          masked_text |-> SubFirstFrom(pattern, mask, acc.masked_text, 1)]
    ELSE acc

\* One detector: findall on the original text; when it found something, the
\* descriptions are appended and the pattern is substituted in the running
\* masked_text.  acc holds detected_items and masked_text.
MaskStep(pattern, label, mask, text, acc) ==
    LET found == FindAll(pattern, text) IN
    IF found /= <<>>
    THEN [detected_items |->
              acc.detected_items \o [i \in 1..Len(found) |-> label \o found[i]],
          masked_text |-> Sub(pattern, mask, acc.masked_text)]
    ELSE acc

\* The five detectors in the order of the code.
MaskAll(text) ==
    LET a0 == [detected_items |-> <<>>, masked_text |-> text]
        a1 == MaskStep(EMAIL, EmailLabel, EmailMask, text, a0)
        a2 == MaskStep(PHONE, PhoneLabel, PhoneMask, text, a1)
        a3 == MaskStep(SSN, SsnLabel, SsnMask, text, a2)
        a4 == MaskStep(CARD, CardLabel, CardMask, text, a3)
    IN MaskStep(IP_ADDRESS, IpLabel, IpMask, text, a4)

\* Mutant: the blocked result carries the masked text.
BlockedResultMasked(text, keyword) ==
    [is_filtered |-> TRUE,
     masked_text |-> MaskAll(text).masked_text,
     detected_items |-> <<keyword>>,
     reason |-> BlockReasonPrefix \o keyword]

\* Mutant: the blocked result leaves reason at the default of the dataclass.
BlockedResultNoReason(text, keyword) ==
    [is_filtered |-> TRUE,
     masked_text |-> text,
     detected_items |-> <<keyword>>,
     reason |-> <<>>]

\* The FilterResult returned from inside the loop over the keywords.
BlockedResult(text, keyword) ==
    [is_filtered |-> TRUE,
     masked_text |-> text,
     detected_items |-> <<keyword>>,
     reason |-> BlockReasonPrefix \o keyword]

\* Mutant: the summary is built whether or not anything was detected.
MaskedResultAlwaysSummary(text, acc) ==
    [is_filtered |-> FALSE,
     masked_text |-> acc.masked_text,
     detected_items |-> acc.detected_items,
     reason |-> MaskReasonHead \o Decimal(Len(acc.detected_items))
                    \o MaskReasonTail]

\* Mutant: a text in which nothing was detected raises instead of
\* returning.
MaskedResultRaises(text, acc) ==
    IF acc.detected_items /= <<>>
    THEN [is_filtered |-> FALSE,
          masked_text |-> acc.masked_text,
          detected_items |-> acc.detected_items,
          reason |-> MaskReasonHead \o Decimal(Len(acc.detected_items))
                         \o MaskReasonTail]
    ELSE [raised |-> "Exception"]

\* The two returns at the end of filter_message.
MaskedResult(text, acc) ==
    IF acc.detected_items /= <<>>
    THEN [is_filtered |-> FALSE,
          masked_text |-> acc.masked_text,
          detected_items |-> acc.detected_items,
          reason |-> MaskReasonHead \o Decimal(Len(acc.detected_items))
                         \o MaskReasonTail]
    ELSE [is_filtered |-> FALSE,
          masked_text |-> text,
          detected_items |-> <<>>,
          reason |-> <<>>]

filter_message(keywords, text) ==
    LET i == FirstBlocked(keywords, text, 1) IN
    IF i /= 0 THEN BlockedResult(text, keywords[i])
    ELSE MaskedResult(text, MaskAll(text))

(***************************************************************************)
(* add_blocked_keyword and remove_blocked_keyword                          *)
(***************************************************************************)
\* keyword in self.blocked_keywords (list membership: equal strings).
InList(keywords, keyword) == \E i \in 1..Len(keywords) : keywords[i] = keyword

\* list.remove(keyword): the first occurrence is deleted.
RECURSIVE ListRemove(_, _)
ListRemove(keywords, keyword) ==
    IF keywords = <<>> THEN <<>>
    ELSE IF Head(keywords) = keyword THEN Tail(keywords)
    ELSE <<Head(keywords)>> \o ListRemove(Tail(keywords), keyword)

\* Mutant: an absent keyword is put in front of the list.
AddAtFront(keywords, keyword) ==
    IF InList(keywords, keyword) THEN keywords ELSE <<keyword>> \o keywords

\* Mutant: the keyword is appended without the membership test.
AddWithoutTest(keywords, keyword) == Append(keywords, keyword)

add_blocked_keyword(keywords, keyword) ==
    IF ~InList(keywords, keyword) THEN Append(keywords, keyword) ELSE keywords

\* Mutant: the last keyword is deleted, whatever the argument.
RemoveLastKeyword(keywords, keyword) ==
    IF InList(keywords, keyword) THEN SubSeq(keywords, 1, Len(keywords) - 1)
    ELSE keywords

remove_blocked_keyword(keywords, keyword) ==
    IF InList(keywords, keyword) THEN ListRemove(keywords, keyword)
    ELSE keywords

(***************************************************************************)
(* Inputs.  A text is the concatenation of at most MaxTokens tokens.  The  *)
(* tokens are the samples of test_filter (one item of each category,       *)
(* preceded by a space so that two items can follow each other, and two    *)
(* keywords of the initial list) and the pieces that put a Hangul letter,  *)
(* a dot, a bar, a digit or a second detector's shape next to or around a  *)
(* match.                                                                  *)
(***************************************************************************)
MaxTokens == 2

TokEmail == <<" ", "a", "@", "b", ".", "c", "o">>
TokPhone ==
    <<" ", "0", "1", "0", "-", "1", "2", "3", "4", "-", "5", "6", "7", "8">>
TokSsn ==
    <<" ", "1", "2", "3", "4", "5", "6", "-", "1", "2", "3", "4", "5", "6",
      "7">>
TokCard ==
    <<" ", "1", "2", "3", "4", "-", "5", "6", "7", "8", "-", "9", "0", "1",
      "2", "-", "3", "4", "5", "6">>
TokIp == <<" ", "1", ".", "2", ".", "3", ".", "4">>
TokHangul == <<"k_ip">>
TokDomain == <<"@", "b", ".", "c", "o">>
TokDot == <<".">>
TokBar == <<"|">>
TokZero == <<"0">>
TokApiKey == <<"A", "p", "i", " ", "k_ki">>
KwIp == <<"i", "p">>
TokIpUpper == <<"I", "P">>

Tokens ==
    {TokEmail, TokPhone, TokSsn, TokCard, TokIp, TokHangul, TokDomain,
     TokDot, TokBar, TokZero, KwHacking, TokApiKey, KwIp, TokIpUpper}

\* The texts about the keywords: two keywords of the initial list, the
\* keyword "ip" in both cases, and two items whose masking does not block.
KeywordTokens == {KwHacking, TokApiKey, KwIp, TokIpUpper, TokEmail, TokIp}

\* The concatenations of at most n of the tokens.
RECURSIVE TextsOf(_, _)
TextsOf(tokens, n) ==
    IF n = 0 THEN {<<>>}
    ELSE LET shorter == TextsOf(tokens, n - 1)
         IN shorter \cup {t \o tok : t \in shorter, tok \in tokens}

Texts == TextsOf(Tokens, MaxTokens)
KeywordTexts == TextsOf(KeywordTokens, MaxTokens)

\* The keywords the administrative calls are made with: a keyword that is
\* not in the initial list and, for the texts about the keywords, also the
\* first keyword of the initial list.
KeywordInputs == {KwIp}
AdminKeywordInputs == {KwHacking, KwIp}

(***************************************************************************)
(* State                                                                   *)
(***************************************************************************)
VARIABLES
    blocked_keywords,   \* the list BLOCKED_KEYWORDS / self.blocked_keywords
    text,               \* the message under test
    call,               \* the most recent call: its name and its argument
    result,             \* what that call returned
    history,            \* the keyword of the most recent add_blocked_keyword
                        \* call, and whether remove_blocked_keyword was called
                        \* with it since ("added", "removed"; "none" at first)
    instances,          \* the SecurityFilter objects: for each, what its
                        \* attribute blocked_keywords refers to
    earlier,            \* a remembered filter_message call: the list it ran
                        \* with and what it returned
    scan,               \* a filter_message call in progress in a thread of
                        \* its own: the position of its loop over the
                        \* keyword list
    admin,              \* the administrative threads: whether each is
                        \* between the membership test and the list
                        \* operation of add_blocked_keyword or
                        \* remove_blocked_keyword, and how its last call
                        \* ended
    gemini_service,     \* the GeminiAPIService object of the module
    settings,           \* app.utils.config.settings
    chat,               \* the chat request being handled: the locals of
                        \* chat() and what it did so far
    chat_logs,          \* the committed rows of the table chat_logs
    rag_service,        \* the RAGService object of the module; its
                        \* vectorstore is the list of the stored chunks
    upload              \* the request to a document endpoint being
                        \* handled: the locals of the handler, the
                        \* documents it handed to the service, the value
                        \* it returned and what the client got

retryVars == <<earlier>>
threadVars == <<scan, admin>>
chatVars == <<gemini_service, settings, chat, chat_logs>>
docVars == <<rag_service, upload>>
vars == <<blocked_keywords, text, call, result, history, instances,
          retryVars, threadVars, chatVars, docVars>>

None == "None"
NoHistory == [keyword |-> <<>>, stage |-> "none"]
NoCall == [made |-> FALSE]
NoScan == [pc |-> "idle"]

\* The threads that call add_blocked_keyword and remove_blocked_keyword.
AdminThreads == {"admin1", "admin2"}
AdminIdle(op, keyword, raised) ==
    [pc |-> "idle", op |-> op, keyword |-> keyword, raised |-> raised]
NoAdmin == [t \in AdminThreads |-> AdminIdle("none", <<>>, "")]

\* The response of a request: the status code and, for a ChatResponse, its
\* fields response, filtered and log_id.
HttpResponse(status, response, filtered, log_id) ==
    [status |-> status, response |-> response, filtered |-> filtered,
     log_id |-> log_id]
NoResponse == HttpResponse(0, <<>>, FALSE, 0)

\* chat() is not running: none of its locals is assigned.
NoRequest ==
    [pc |-> "idle",
     served |-> 0,
     request |-> [user_id |-> "", message |-> <<>>, use_context |-> FALSE,
                  context_limit |-> 0],
     filter_result |-> [is_filtered |-> FALSE, masked_text |-> <<>>,
                        detected_items |-> <<>>, reason |-> <<>>],
     filtered_message |-> <<>>,
     filtered |-> FALSE,
     conversation_history |-> <<>>,
     ai_response |-> <<>>,
     calls |-> <<>>,
     chat_log |-> [id |-> 0],
     rows_before |-> 0,
     events |-> <<>>,
     http |-> NoResponse]
MAX_MESSAGE_LENGTH == 2000
DefaultSettings == [MAX_MESSAGE_LENGTH |-> MAX_MESSAGE_LENGTH]

\* GeminiAPIService.__init__: without a key, and when the set-up of the
\* client raises, the service is not available and has no model.
ModelName == "gemini-2.5-flash"
GeminiAPIService(api_key, configured) ==
    IF api_key /= None /\ configured
    THEN [api_key |-> api_key, is_available |-> TRUE, model |-> ModelName]
    ELSE [api_key |-> api_key, is_available |-> FALSE, model |-> None]

\* A reference to the list object that the module-level name
\* BLOCKED_KEYWORDS is bound to, whose content is the variable
\* blocked_keywords.
ModuleList == [object |-> "BLOCKED_KEYWORDS"]

\* A list object of its own, with its content.
OwnList(keywords) == [object |-> "own", list |-> keywords]

\* Mutant: __init__ binds the attribute to a copy of the list.
InitWithCopy == [blocked_keywords |-> OwnList(blocked_keywords)]

\* SecurityFilter.__init__: the attribute is bound to the object itself.
SecurityFilterInit == [blocked_keywords |-> ModuleList]

\* security_filter = SecurityFilter() at import is the only instance.
OneInstance == instances = <<SecurityFilterInit>>

\* RAGService.__init__
\* and its vectorstore when it is None.
NoStore == [created |-> FALSE, chunks |-> <<>>]
NewRagService ==
    [is_initialized |-> FALSE, embeddings |-> None, vectorstore |-> NoStore]

\* No request to the document endpoints is being handled.
NoUpload ==
    [pc |-> "idle", served |-> 0, op |-> "none", request |-> None,
     files |-> <<>>, index |-> 0, uploaded_files |-> <<>>,
     failed_files |-> <<>>, handed |-> <<>>, returned |-> None,
     http |-> [status |-> 0, body |-> None]]
NoDocuments == rag_service = NewRagService /\ upload = NoUpload

\* What the specifications that do not use them leave alone.
NoRetry == earlier = NoCall
NoThreads == scan = NoScan /\ admin = NoAdmin
NoChat ==
    /\ gemini_service = GeminiAPIService(None, TRUE)
    /\ settings = DefaultSettings
    /\ chat = NoRequest
    /\ chat_logs = <<>>

Init ==
    /\ blocked_keywords = BLOCKED_KEYWORDS
    /\ text \in Texts
    /\ call = [op |-> "init", arg |-> <<>>]
    /\ result = None
    /\ history = NoHistory
    /\ OneInstance /\ NoDocuments /\ NoRetry /\ NoThreads /\ NoChat

\* Mutant: a keyword that was removed still blocks.
FilterTextStale ==
    /\ call' = [op |-> "filter_message", arg |-> text]
    /\ result' = filter_message(
                     IF history.stage = "removed"
                     THEN add_blocked_keyword(blocked_keywords, history.keyword)
                     ELSE blocked_keywords,
                     text)
    /\ UNCHANGED <<blocked_keywords, text, history>>
    /\ UNCHANGED <<docVars, instances, retryVars, threadVars, chatVars>>

\* Mutant: a call that blocks moves the keyword it found to the front of
\* the list.
FilterTextMoveToFront ==
    /\ call' = [op |-> "filter_message", arg |-> text]
    /\ result' = filter_message(blocked_keywords, text)
    /\ blocked_keywords' =
           IF result'.is_filtered
           THEN <<result'.detected_items[1]>>
                    \o remove_blocked_keyword(blocked_keywords,
                                              result'.detected_items[1])
           ELSE blocked_keywords
    /\ UNCHANGED <<text, history>>
    /\ UNCHANGED <<docVars, instances, retryVars, threadVars, chatVars>>

\* security_filter.filter_message(text)
FilterText ==
    /\ call' = [op |-> "filter_message", arg |-> text]
    /\ result' = filter_message(blocked_keywords, text)
    /\ UNCHANGED <<blocked_keywords, text, history>>
    /\ UNCHANGED <<docVars, instances, retryVars, threadVars, chatVars>>

\* security_filter.filter_message(r.masked_text) for the result r, not
\* blocked, of the call before.
FilterMasked ==
    /\ call.op = "filter_message"
    /\ ~result.is_filtered
    /\ call' = [op |-> "filter_masked", arg |-> result.masked_text]
    /\ result' = filter_message(blocked_keywords, result.masked_text)
    /\ UNCHANGED <<blocked_keywords, text, history>>
    /\ UNCHANGED <<docVars, instances, retryVars, threadVars, chatVars>>

\* security_filter.add_blocked_keyword(keyword)
AddBlockedKeyword(keyword) ==
    /\ blocked_keywords' = add_blocked_keyword(blocked_keywords, keyword)
    /\ call' = [op |-> "add_blocked_keyword", arg |-> keyword]
    /\ result' = None
    /\ history' = [keyword |-> keyword, stage |-> "added"]
    /\ UNCHANGED text
    /\ UNCHANGED <<docVars, instances, retryVars, threadVars, chatVars>>

\* security_filter.remove_blocked_keyword(keyword)
RemoveBlockedKeyword(keyword) ==
    /\ blocked_keywords' = remove_blocked_keyword(blocked_keywords, keyword)
    /\ call' = [op |-> "remove_blocked_keyword", arg |-> keyword]
    /\ result' = None
    /\ history' = IF history.stage /= "none" /\ history.keyword = keyword
                  THEN [history EXCEPT !.stage = "removed"]
                  ELSE history
    /\ UNCHANGED text
    /\ UNCHANGED <<docVars, instances, retryVars, threadVars, chatVars>>

Next ==
    \/ FilterText
    \/ FilterMasked
    \/ \E keyword \in KeywordInputs : AddBlockedKeyword(keyword)
    \/ \E keyword \in KeywordInputs : RemoveBlockedKeyword(keyword)

Spec == Init /\ [][Next]_vars

\* The same operations on the texts about the keywords, with both keywords
\* added and removed.
InitKeywords ==
    /\ blocked_keywords = BLOCKED_KEYWORDS
    /\ text \in KeywordTexts
    /\ call = [op |-> "init", arg |-> <<>>]
    /\ result = None
    /\ history = NoHistory
    /\ OneInstance /\ NoDocuments /\ NoRetry /\ NoThreads /\ NoChat

NextKeywords ==
    \/ FilterText
    \/ FilterMasked
    \/ \E keyword \in AdminKeywordInputs : AddBlockedKeyword(keyword)
    \/ \E keyword \in AdminKeywordInputs : RemoveBlockedKeyword(keyword)

SpecKeywords == InitKeywords /\ [][NextKeywords]_vars

(***************************************************************************)
(* Several SecurityFilter objects.  The list that a method of an instance  *)
(* reads or changes is the object its attribute refers to.                 *)
(***************************************************************************)
MaxInstances == 2

\* The content of the list self.blocked_keywords of an instance.
ListOf(self) ==
    IF self.blocked_keywords = ModuleList THEN blocked_keywords
    ELSE self.blocked_keywords.list

\* The lists after the list of instances[i] has got the content keywords.
ListChanged(i, keywords) ==
    IF instances[i].blocked_keywords = ModuleList
    THEN blocked_keywords' = keywords /\ UNCHANGED instances
    ELSE /\ instances' =
                [instances EXCEPT ![i].blocked_keywords.list = keywords]
         /\ UNCHANGED blocked_keywords

\* SecurityFilter()
NewInstance ==
    /\ Len(instances) < MaxInstances
    /\ instances' = Append(instances, SecurityFilterInit)
    /\ UNCHANGED <<blocked_keywords, text, call, result, history>>
    /\ UNCHANGED <<docVars, retryVars, threadVars, chatVars>>

\* instances[i].filter_message(text)
InstanceFilter(i) ==
    /\ call' = [op |-> "filter_message", arg |-> text, instance |-> i]
    /\ result' = filter_message(ListOf(instances[i]), text)
    /\ UNCHANGED <<blocked_keywords, text, history, instances>>
    /\ UNCHANGED <<docVars, retryVars, threadVars, chatVars>>

\* instances[i].add_blocked_keyword(keyword)
InstanceAdd(i, keyword) ==
    /\ ListChanged(i, add_blocked_keyword(ListOf(instances[i]), keyword))
    /\ call' = [op |-> "add_blocked_keyword", arg |-> keyword,
                instance |-> i]
    /\ result' = None
    /\ history' = [keyword |-> keyword, stage |-> "added", instance |-> i]
    /\ UNCHANGED text
    /\ UNCHANGED <<docVars, retryVars, threadVars, chatVars>>

\* instances[i].remove_blocked_keyword(keyword)
InstanceRemove(i, keyword) ==
    /\ ListChanged(i, remove_blocked_keyword(ListOf(instances[i]), keyword))
    /\ call' = [op |-> "remove_blocked_keyword", arg |-> keyword,
                instance |-> i]
    /\ result' = None
    /\ history' = IF history.stage /= "none" /\ history.keyword = keyword
                  THEN [history EXCEPT !.stage = "removed", !.instance = i]
                  ELSE history
    /\ UNCHANGED text
    /\ UNCHANGED <<docVars, retryVars, threadVars, chatVars>>

NextInstances ==
    \/ NewInstance
    \/ \E i \in 1..Len(instances) : InstanceFilter(i)
    \/ \E i \in 1..Len(instances), keyword \in AdminKeywordInputs :
           InstanceAdd(i, keyword)
    \/ \E i \in 1..Len(instances), keyword \in AdminKeywordInputs :
           InstanceRemove(i, keyword)

\* The texts: a keyword of the initial list, a keyword that is added, and
\* an item whose masking does not block.
InstanceTexts == TextsOf({KwHacking, KwIp, TokEmail}, MaxTokens)

InitInstances ==
    /\ blocked_keywords = BLOCKED_KEYWORDS
    /\ text \in InstanceTexts
    /\ call = [op |-> "init", arg |-> <<>>]
    /\ result = None
    /\ history = NoHistory
    /\ OneInstance /\ NoDocuments /\ NoRetry /\ NoThreads /\ NoChat

SpecInstances == InitInstances /\ [][NextInstances]_vars

(***************************************************************************)
(* add_blocked_keyword and remove_blocked_keyword called from two threads. *)
(* Each method is a membership test followed by a list operation, with no  *)
(* lock: the interpreter can switch threads between the two, so the test   *)
(* and the operation are two steps.  list.remove deletes the first equal   *)
(* element and raises ValueError when there is none.                       *)
(***************************************************************************)
\* `if keyword not in self.blocked_keywords` of add_blocked_keyword.
AddTest(t, keyword) ==
    /\ admin[t].pc = "idle"
    /\ admin' = [admin EXCEPT ![t] =
                     IF InList(blocked_keywords, keyword)
                     THEN AdminIdle("add_blocked_keyword", keyword, "")
                     ELSE [AdminIdle("add_blocked_keyword", keyword, "")
                              EXCEPT !.pc = "append"]]
    /\ UNCHANGED <<blocked_keywords, text, call, result, history>>
    /\ UNCHANGED <<docVars, instances, retryVars, scan, chatVars>>

\* `self.blocked_keywords.append(keyword)`
AddAppend(t) ==
    /\ admin[t].pc = "append"
    /\ blocked_keywords' = Append(blocked_keywords, admin[t].keyword)
    /\ admin' = [admin EXCEPT ![t].pc = "idle"]
    /\ UNCHANGED <<text, call, result, history>>
    /\ UNCHANGED <<docVars, instances, retryVars, scan, chatVars>>

\* `if keyword in self.blocked_keywords` of remove_blocked_keyword.
RemoveTest(t, keyword) ==
    /\ admin[t].pc = "idle"
    /\ admin' = [admin EXCEPT ![t] =
                     IF InList(blocked_keywords, keyword)
                     THEN [AdminIdle("remove_blocked_keyword", keyword, "")
                              EXCEPT !.pc = "remove"]
                     ELSE AdminIdle("remove_blocked_keyword", keyword, "")]
    /\ UNCHANGED <<blocked_keywords, text, call, result, history>>
    /\ UNCHANGED <<docVars, instances, retryVars, scan, chatVars>>

\* `self.blocked_keywords.remove(keyword)`
RemoveFromList(t) ==
    /\ admin[t].pc = "remove"
    /\ IF InList(blocked_keywords, admin[t].keyword)
       THEN /\ blocked_keywords' =
                   ListRemove(blocked_keywords, admin[t].keyword)
            /\ admin' = [admin EXCEPT ![t].pc = "idle"]
       ELSE /\ admin' = [admin EXCEPT ![t].pc = "idle",
                                      ![t].raised = "ValueError"]
            /\ UNCHANGED blocked_keywords
    /\ UNCHANGED <<text, call, result, history>>
    /\ UNCHANGED <<docVars, instances, retryVars, scan, chatVars>>

NextAdmin ==
    \/ \E t \in AdminThreads, keyword \in AdminKeywordInputs :
           AddTest(t, keyword)
    \/ \E t \in AdminThreads : AddAppend(t)
    \/ \E t \in AdminThreads, keyword \in AdminKeywordInputs :
           RemoveTest(t, keyword)
    \/ \E t \in AdminThreads : RemoveFromList(t)

SpecAdmin == InitKeywords /\ [][NextAdmin]_vars

(***************************************************************************)
(* The same operations on texts in which the matches of two detectors      *)
(* overlap: a phone number or an IP address as the local part of an e-mail *)
(* address, a card number written with spaces whose last group is the      *)
(* local part of an e-mail address, and a phone number whose last four     *)
(* digits are the first group of a card number written with spaces.        *)
(***************************************************************************)
TokLandline == <<" ", "0", "2", "-", "1", "2", "3", "-", "4", "5", "6", "7">>
TokGroups ==
    <<" ", "8", "9", "0", "1", " ", "2", "3", "4", "5", " ", "6", "7", "8",
      "9">>
TokCardSpaced ==
    <<" ", "1", "2", "3", "4", " ", "5", "6", "7", "8", " ", "9", "0", "1",
      "2", " ", "3", "4", "5", "6">>

OverlapTokens ==
    {TokLandline, TokGroups, TokCardSpaced, TokDomain, TokPhone, TokIp,
     TokEmail}
OverlapTexts == TextsOf(OverlapTokens, MaxTokens)

InitOverlap ==
    /\ blocked_keywords = BLOCKED_KEYWORDS
    /\ text \in OverlapTexts
    /\ call = [op |-> "init", arg |-> <<>>]
    /\ result = None
    /\ history = NoHistory
    /\ OneInstance /\ NoDocuments /\ NoRetry /\ NoThreads /\ NoChat

SpecOverlap == InitOverlap /\ [][Next]_vars

(***************************************************************************)
(* Two calls of filter_message compared: one call is remembered, with the  *)
(* list it ran with and the calls made before it, and any later call can   *)
(* be held against it.                                                     *)
(***************************************************************************)
\* security_filter.filter_message(text), remembered.
FilterAndRemember ==
    /\ call' = [op |-> "filter_message", arg |-> text]
    /\ result' = filter_message(blocked_keywords, text)
    /\ earlier' = [made |-> TRUE,
                   keywords |-> blocked_keywords,
                   history |-> history,
                   result |-> result']
    /\ UNCHANGED <<blocked_keywords, text, history>>
    /\ UNCHANGED <<docVars, instances, threadVars, chatVars>>

NextRetry ==
    \/ FilterAndRemember
    \/ FilterText
    \/ \E keyword \in KeywordInputs : AddBlockedKeyword(keyword)
    \/ \E keyword \in KeywordInputs : RemoveBlockedKeyword(keyword)

SpecRetry == InitKeywords /\ [][NextRetry]_vars

(***************************************************************************)
(* filter_message in one thread, add_blocked_keyword and                   *)
(* remove_blocked_keyword in another.  The loop `for keyword in            *)
(* self.blocked_keywords` iterates the list object itself: the list        *)
(* iterator keeps a position and reads the list anew at every iteration,   *)
(* and the other thread can run between two iterations.  The body of the   *)
(* loop reads only the local keyword and the text, so one iteration is one *)
(* step.  There is no lock in the class.                                   *)
(***************************************************************************)
\* The keywords of a list, as a set.
Keywords(keywords) == {keywords[i] : i \in 1..Len(keywords)}

\* filter_message(text) is called: the iterator is created at the first
\* position.  whole_call holds the keywords that have been in the list
\* since the call began.
ScanStart ==
    /\ scan.pc \in {"idle", "done"}
    /\ scan' = [pc |-> "loop", index |-> 1,
                whole_call |-> Keywords(blocked_keywords)]
    /\ UNCHANGED <<blocked_keywords, text, call, result, history>>
    /\ UNCHANGED <<docVars, instances, retryVars, admin, chatVars>>

\* One iteration: the iterator is exhausted when its position is beyond the
\* current end of the list, and the call goes on to the detectors and
\* returns; otherwise the keyword at the position is read and tested.
ScanStep ==
    /\ scan.pc = "loop"
    /\ scan' =
          IF scan.index > Len(blocked_keywords)
          THEN [pc |-> "done", whole_call |-> scan.whole_call,
                result |-> MaskedResult(text, MaskAll(text))]
          ELSE IF KeywordMatches(blocked_keywords[scan.index], text)
          THEN [pc |-> "done", whole_call |-> scan.whole_call,
                result |-> BlockedResult(text, blocked_keywords[scan.index])]
          ELSE [scan EXCEPT !.index = @ + 1]
    /\ UNCHANGED <<blocked_keywords, text, call, result, history>>
    /\ UNCHANGED <<docVars, instances, retryVars, admin, chatVars>>

\* add_blocked_keyword(keyword) in the other thread.
ConcurrentAdd(keyword) ==
    /\ blocked_keywords' = add_blocked_keyword(blocked_keywords, keyword)
    /\ UNCHANGED <<text, call, result, history>>
    /\ UNCHANGED <<docVars, instances, retryVars, threadVars, chatVars>>

\* remove_blocked_keyword(keyword) in the other thread.
ConcurrentRemove(keyword) ==
    /\ blocked_keywords' = remove_blocked_keyword(blocked_keywords, keyword)
    /\ scan' = IF scan.pc = "idle" THEN scan
               ELSE [scan EXCEPT !.whole_call = @ \ {keyword}]
    /\ UNCHANGED <<text, call, result, history>>
    /\ UNCHANGED <<docVars, instances, retryVars, admin, chatVars>>

NextThreads ==
    \/ ScanStart
    \/ ScanStep
    \/ \E keyword \in AdminKeywordInputs : ConcurrentAdd(keyword)
    \/ \E keyword \in AdminKeywordInputs : ConcurrentRemove(keyword)

SpecThreads == InitKeywords /\ [][NextThreads]_vars

(***************************************************************************)
(* POST /api/chat: the handler chat().  Requests are handled one after     *)
(* the other; a request is a ChatRequest that passed the validation of its *)
(* fields.  chat.events lists what the handler did for the request, in the *)
(* order it did it; chat.calls lists its calls of gemini_service.  A row   *)
(* of chat_logs holds id, user_id, message, response and filtered; the     *)
(* rows are in the order of their created_at.                              *)
(***************************************************************************)
MaxRequests == 2

Users == {"user1", "user2"}

DefaultContextLimit == 10
ContextLimits == {1, DefaultContextLimit}

\* The messages: one without anything to detect, a card number, a blocked
\* message that carries a national ID, and a card number with an e-mail
\* address.
MsgHello == <<"h", "i">>
ChatMessages == {MsgHello, TokCard, KwHacking \o TokSsn, TokCard \o TokEmail}

\* settings with MAX_MESSAGE_LENGTH set in the environment to the length of
\* the card message: the longest message is over the limit.
LoweredSettings == [MAX_MESSAGE_LENGTH |-> Len(TokCard)]
SettingsInputs == {DefaultSettings, LoweredSettings}

\* The refusal of chat() for a blocked message.
RefusalText ==
    <<"k_joe", "k_song", "k_hap", "k_ni", "k_da", ".", " ", "k_bo",
      "k_an", " ", "k_jeong", "k_chaek", "k_e", " ", "k_wi", "k_bae",
      "k_doe", "k_neun", " ", "k_nae", "k_yong", "k_i", " ", "k_po",
      "k_ham", "k_doe", "k_eo", " ", "k_it", "k_eo", " ", "k_eung",
      "k_dap", "k_hal", " ", "k_su", " ", "k_eops", "k_seup", "k_ni",
      "k_da", ".">>

\* What gemini_service returns: the text of the model, or its apology
\* when the API call raised.
AnswerText == <<"o", "k">>
ApologyText ==
    <<"k_joe", "k_song", "k_hap", "k_ni", "k_da", ".", " ", "k_il",
      "k_si", "k_jeok", "k_in", " ", "k_o", "k_ryu", "k_ga", " ",
      "k_bal", "k_saeng", "k_haess", "k_seup", "k_ni", "k_da", ".",
      " ", "k_jam", "k_si", " ", "k_hu", " ", "k_da", "k_si", " ",
      "k_si", "k_do", "k_hae", "k_ju", "k_se", "k_yo", ".">>
BackendResponses == {AnswerText, ApologyText}

\* _generate_dummy_response
DummyGreeting ==
    <<"k_an", "k_nyeong", "k_ha", "k_se", "k_yo", "!", " ", "k_jeo",
      "k_neun", " ", "A", "I", " ", "k_chaet", "k_bot", "k_ip", "k_ni",
      "k_da", ".", " ", "k_mu", "k_eot", "k_eul", " ", "k_do", "k_wa",
      "k_deu", "k_ril", "k_kka", "k_yo", "?">>
DummyInfo ==
    <<"G", "e", "m", "i", "n", "i", "k_neun", " ", "k_gu", "k_geul",
      "k_ui", " ", "k_choe", "k_sin", " ", "A", "I", " ", "k_mo", "k_del",
      "k_ip", "k_ni", "k_da", ".", "\n", "\n", "k_ju", "k_yo", " ",
      "k_teuk", "k_jing", ":", "\n", "1", ".", " ", "k_meol", "k_ti",
      "k_mo", "k_dal", " ", "A", "I", " ", "(", "k_tek", "k_seu", "k_teu",
      ",", " ", "k_i", "k_mi", "k_ji", ",", " ", "k_yeong", "k_sang", " ",
      "k_cheo", "k_ri", ")", "\n", "2", ".", " ", "k_ppa", "k_reun", " ",
      "k_eung", "k_dap", " ", "k_sok", "k_do", "\n", "3", ".", " ", "k_mu",
      "k_ryo", " ", "k_ti", "k_eo", " ", "k_je", "k_gong", "\n", "\n",
      "k_hyeon", "k_jae", " ", "k_deo", "k_mi", " ", "k_mo", "k_deu",
      "k_ro", " ", "k_jak", "k_dong", " ", "k_jung", "k_ip", "k_ni",
      "k_da", ".", "\n", ".", "e", "n", "v", "k_e", " ", "G", "E", "M",
      "I", "N", "I", "_", "A", "P", "I", "_", "K", "E", "Y", "k_reul", " ",
      "k_chu", "k_ga", "k_ha", "k_myeon", " ", "k_sil", "k_je", " ", "A",
      "I", " ", "k_eung", "k_dap", "k_eul", " ", "k_bat", "k_eul", " ",
      "k_su", " ", "k_it", "k_seup", "k_ni", "k_da", ".">>
DummyEchoHead == <<"'">>
DummyEchoTail ==
    <<"'", "k_e", " ", "k_dae", "k_hae", " ", "k_jil", "k_mun", "k_ha",
      "k_syeoss", "k_gun", "k_yo", ".", "\n", "\n", "[", "k_deo", "k_mi",
      " ", "k_eung", "k_dap", " ", "k_mo", "k_deu", "]", "\n", "k_sil",
      "k_je", " ", "G", "e", "m", "i", "n", "i", " ", "A", "I", "k_reul",
      " ", "k_sa", "k_yong", "k_ha", "k_ryeo", "k_myeon", ":", "\n", "1",
      ".", " ", "h", "t", "t", "p", "s", ":", "/", "/", "a", "i", "s", "t",
      "u", "d", "i", "o", ".", "g", "o", "o", "g", "l", "e", ".", "c", "o",
      "m", "/", "a", "p", "p", "/", "a", "p", "i", "k", "e", "y", " ",
      "k_e", "k_seo", " ", "A", "P", "I", " ", "k_ki", " ", "k_bal",
      "k_geup", "\n", "2", ".", " ", ".", "e", "n", "v", " ", "k_pa",
      "k_il", "k_e", " ", "G", "E", "M", "I", "N", "I", "_", "A", "P", "I",
      "_", "K", "E", "Y", "=", "y", "o", "u", "r", "-", "a", "p", "i", "-",
      "k", "e", "y", " ", "k_chu", "k_ga", "\n", "3", ".", " ", "k_seo",
      "k_beo", " ", "k_jae", "k_si", "k_jak", "\n", "\n", "k_i", "k_hu",
      " ", "k_sil", "k_je", " ", "A", "I", " ", "k_eung", "k_dap", "k_eu",
      "k_ro", " ", "k_jeon", "k_hwan", "k_doep", "k_ni", "k_da", ".">>
Hello == <<"h", "e", "l", "l", "o">>
Annyeong == <<"k_an", "k_nyeong">>
VertexAiName == <<"v", "e", "r", "t", "e", "x", " ", "a", "i">>
GeminiName == <<"g", "e", "m", "i", "n", "i">>

_generate_dummy_response(message) ==
    IF Contains(ToLower(message), Annyeong)
           \/ Contains(ToLower(message), Hello)
    THEN DummyGreeting
    ELSE IF Contains(ToLower(message), VertexAiName)
                \/ Contains(ToLower(message), GeminiName)
    THEN DummyInfo
    ELSE DummyEchoHead \o message \o DummyEchoTail

\* What self.model.generate_content(...) and response.text do: give the
\* text, or raise.
ApiOutcomes == {"text", "raises"}

\* What a method of the service gives back to chat(): the value it returns
\* or the exception it lets through, and whether it called the API.
Returned(response, api) ==
    [response |-> response, raised |-> FALSE, api |-> api]

\* Mutant: the exception of the API call is not caught.
GenerateUncaught(self, message, outcome) ==
    IF ~self.is_available \/ self.model = None
    THEN Returned(_generate_dummy_response(message), "none")
    ELSE IF outcome = "raises"
    THEN [response |-> None, raised |-> TRUE, api |-> outcome]
    ELSE Returned(AnswerText, outcome)

\* GeminiAPIService.generate_response
generate_response(self, message, outcome) ==
    IF ~self.is_available \/ self.model = None
    THEN Returned(_generate_dummy_response(message), "none")
    ELSE IF outcome = "raises"
    THEN Returned(ApologyText, outcome)
    ELSE Returned(AnswerText, outcome)

\* GeminiAPIService.generate_response_with_context
generate_response_with_context(self, message, conversation_history, outcome) ==
    IF ~self.is_available \/ self.model = None
    THEN Returned(_generate_dummy_response(message), "none")
    ELSE IF outcome = "raises"
    THEN Returned(ApologyText, outcome)
    ELSE Returned(AnswerText, outcome)

Event(e) == [chat EXCEPT !.events = Append(@, e)]

\* A validated ChatRequest arrives and chat() starts.
ChatArrives(user_id, message, use_context, context_limit) ==
    /\ chat.pc \in {"idle", "done"}
    /\ chat.served < MaxRequests
    /\ chat' = [NoRequest EXCEPT
                  !.pc = "validate",
                  !.served = chat.served + 1,
                  !.request = [user_id |-> user_id, message |-> message,
                               use_context |-> use_context,
                               context_limit |-> context_limit],
                  !.rows_before = Len(chat_logs)]
    /\ UNCHANGED <<blocked_keywords, text, call, result, history>>
    /\ UNCHANGED <<docVars, instances, retryVars, threadVars>>
    /\ UNCHANGED <<gemini_service, settings, chat_logs>>

\* 1. The length check: HTTPException(400) or on to the filter.
ChatValidate ==
    /\ chat.pc = "validate"
    /\ chat' =
          IF Len(chat.request.message) > settings.MAX_MESSAGE_LENGTH
          THEN [Event("validate") EXCEPT
                   !.pc = "done",
                   !.http = HttpResponse(400, <<>>, FALSE, 0)]
          ELSE [Event("validate") EXCEPT !.pc = "filter"]
    /\ UNCHANGED <<blocked_keywords, text, call, result, history>>
    /\ UNCHANGED <<docVars, instances, retryVars, threadVars>>
    /\ UNCHANGED <<gemini_service, settings, chat_logs>>

\* 2. security_filter.filter_message(request.message)
ChatFilter ==
    /\ chat.pc = "filter"
    /\ \E filter_result \in
              {filter_message(blocked_keywords, chat.request.message)} :
           chat' = [Event("filter") EXCEPT
                       !.pc = "history",
                       !.filter_result = filter_result,
                       !.filtered_message = filter_result.masked_text,
                       !.filtered = filter_result.is_filtered]
    /\ UNCHANGED <<blocked_keywords, text, call, result, history>>
    /\ UNCHANGED <<docVars, instances, retryVars, threadVars>>
    /\ UNCHANGED <<gemini_service, settings, chat_logs>>

\* Mutant: the limit keeps the oldest rows of the user.
OldestChats(logs, user_id, limit) ==
    LET IsOfUser(row) == row.user_id = user_id
        mine == SelectSeq(logs, IsOfUser)
    IN IF Len(mine) > limit THEN SubSeq(mine, 1, limit) ELSE mine

\* select(ChatLog).where(user_id == ...).order_by(created_at.desc())
\* .limit(limit), reversed: the newest limit rows of the user, oldest first.
RecentChats(logs, user_id, limit) ==
    LET IsOfUser(row) == row.user_id = user_id
        mine == SelectSeq(logs, IsOfUser)
    IN IF Len(mine) > limit
       THEN SubSeq(mine, Len(mine) - limit + 1, Len(mine))
       ELSE mine

\* Two entries per row: the message as the user, the response as the model.
RECURSIVE ConversationHistory(_)
ConversationHistory(recent_chats) ==
    IF recent_chats = <<>> THEN <<>>
    ELSE << [role |-> "user", parts |-> <<Head(recent_chats).message>>],
            [role |-> "model", parts |-> <<Head(recent_chats).response>>] >>
         \o ConversationHistory(Tail(recent_chats))

\* 3. The earlier conversation, read when use_context is set.
ChatHistory ==
    /\ chat.pc = "history"
    /\ chat' =
          IF chat.request.use_context
          THEN [Event("read") EXCEPT
                   !.pc = "generate",
                   !.conversation_history =
                       ConversationHistory(
                           RecentChats(chat_logs, chat.request.user_id,
                                       chat.request.context_limit))]
          ELSE [chat EXCEPT !.pc = "generate"]
    /\ UNCHANGED <<blocked_keywords, text, call, result, history>>
    /\ UNCHANGED <<docVars, instances, retryVars, threadVars>>
    /\ UNCHANGED <<gemini_service, settings, chat_logs>>

\* db.execute raises: nothing in chat() catches it, the request ends with
\* the server error of the framework.
ChatHistoryFails ==
    /\ chat.pc = "history"
    /\ chat.request.use_context
    /\ chat' = [Event("read_failed") EXCEPT
                  !.pc = "done",
                  !.http = HttpResponse(500, <<>>, FALSE, 0)]
    /\ UNCHANGED <<blocked_keywords, text, call, result, history>>
    /\ UNCHANGED <<docVars, instances, retryVars, threadVars>>
    /\ UNCHANGED <<gemini_service, settings, chat_logs>>

\* A call of gemini_service, as chat() makes it, and whether the service
\* called the API.
BackendCall(op, api) ==
    [op |-> op, message |-> chat.filtered_message,
     conversation_history |-> chat.conversation_history, api |-> api]

\* The call chat() makes for a message that is not blocked, and what comes
\* back.
Generated(outcome) ==
    IF chat.conversation_history /= <<>>
    THEN [op |-> "generate_response_with_context",
          back |-> generate_response_with_context(
                       gemini_service, chat.filtered_message,
                       chat.conversation_history, outcome)]
    ELSE [op |-> "generate_response",
          back |-> generate_response(gemini_service, chat.filtered_message,
                                     outcome)]

\* chat() after the call: on to the persist step with the response; an
\* exception that comes out of the service is caught nowhere in chat() and
\* ends the request with the server error of the framework.
AfterCall(g) ==
    IF g.back.raised
    THEN [Event("call") EXCEPT
             !.pc = "done",
             !.calls = Append(@, BackendCall(g.op, g.back.api)),
             !.http = HttpResponse(500, <<>>, FALSE, 0)]
    ELSE [Event("call") EXCEPT
             !.pc = "persist",
             !.ai_response = g.back.response,
             !.calls = Append(@, BackendCall(g.op, g.back.api))]

\* Mutant: the backend is called for a blocked message too.
ChatGenerateAlways ==
    /\ chat.pc = "generate"
    /\ \E outcome \in ApiOutcomes :
           \E g \in {Generated(outcome)} :
               chat' = [AfterCall(g) EXCEPT
                           !.ai_response =
                               IF chat.filtered THEN RefusalText
                               ELSE g.back.response]
    /\ UNCHANGED <<blocked_keywords, text, call, result, history>>
    /\ UNCHANGED <<docVars, instances, retryVars, threadVars>>
    /\ UNCHANGED <<gemini_service, settings, chat_logs>>

\* 4. The refusal for a blocked message; otherwise the call of the backend,
\* with the history when there is one.
ChatGenerate ==
    /\ chat.pc = "generate"
    /\ IF chat.filtered
       THEN chat' = [chat EXCEPT !.pc = "persist",
                                 !.ai_response = RefusalText]
       ELSE \E outcome \in ApiOutcomes :
               \E g \in {Generated(outcome)} : chat' = AfterCall(g)
    /\ UNCHANGED <<blocked_keywords, text, call, result, history>>
    /\ UNCHANGED <<docVars, instances, retryVars, threadVars>>
    /\ UNCHANGED <<gemini_service, settings, chat_logs>>

\* ChatLog(...) as chat() builds it; the id is given by the insert.
ChatLog(id) ==
    [id |-> id,
     user_id |-> chat.request.user_id,
     message |-> chat.filtered_message,
     response |-> chat.ai_response,
     filtered |-> chat.filtered]

\* Mutant: the response is produced first and the row is committed after
\* it.
ChatRespondThenCommit ==
    /\ chat.pc = "persist"
    /\ chat_logs' = Append(chat_logs, ChatLog(Len(chat_logs) + 1))
    /\ chat' = [chat EXCEPT
                  !.pc = "done",
                  !.events = @ \o <<"respond", "commit">>,
                  !.chat_log = ChatLog(Len(chat_logs) + 1),
                  !.http = HttpResponse(200, chat.ai_response, chat.filtered,
                                        Len(chat_logs) + 1)]
    /\ UNCHANGED <<blocked_keywords, text, call, result, history>>
    /\ UNCHANGED <<docVars, instances, retryVars, threadVars>>
    /\ UNCHANGED <<gemini_service, settings>>

\* 5. db.add, db.commit and db.refresh succeed: the row is in the table and
\* chat_log carries its id.
ChatCommit ==
    /\ chat.pc = "persist"
    /\ LET chat_log == ChatLog(Len(chat_logs) + 1)
       IN /\ chat_logs' = Append(chat_logs, chat_log)
          /\ chat' = [Event("commit") EXCEPT
                         !.pc = "respond",
                         !.chat_log = chat_log]
    /\ UNCHANGED <<blocked_keywords, text, call, result, history>>
    /\ UNCHANGED <<docVars, instances, retryVars, threadVars>>
    /\ UNCHANGED <<gemini_service, settings>>

\* Mutant: the failed commit is not rolled back and the row stays.
ChatCommitFailsKeepsRow ==
    /\ chat.pc = "persist"
    /\ chat_logs' = Append(chat_logs, ChatLog(Len(chat_logs) + 1))
    /\ chat' = [chat EXCEPT
                  !.pc = "done",
                  !.events = @ \o <<"commit_failed">>,
                  !.http = HttpResponse(500, <<>>, FALSE, 0)]
    /\ UNCHANGED <<blocked_keywords, text, call, result, history>>
    /\ UNCHANGED <<docVars, instances, retryVars, threadVars>>
    /\ UNCHANGED <<gemini_service, settings>>

\* db.commit raises: the except branch rolls back and raises
\* HTTPException(500); the row is not in the table.
ChatCommitFails ==
    /\ chat.pc = "persist"
    /\ chat' = [chat EXCEPT
                  !.pc = "done",
                  !.events = @ \o <<"commit_failed", "rollback">>,
                  !.http = HttpResponse(500, <<>>, FALSE, 0)]
    /\ UNCHANGED <<blocked_keywords, text, call, result, history>>
    /\ UNCHANGED <<docVars, instances, retryVars, threadVars>>
    /\ UNCHANGED <<gemini_service, settings, chat_logs>>

\* db.commit succeeds and db.refresh raises: the same except branch runs,
\* after the row was committed.
ChatRefreshFails ==
    /\ chat.pc = "persist"
    /\ chat_logs' = Append(chat_logs, ChatLog(Len(chat_logs) + 1))
    /\ chat' = [chat EXCEPT
                  !.pc = "done",
                  !.events = @ \o <<"commit", "refresh_failed", "rollback">>,
                  !.http = HttpResponse(500, <<>>, FALSE, 0)]
    /\ UNCHANGED <<blocked_keywords, text, call, result, history>>
    /\ UNCHANGED <<docVars, instances, retryVars, threadVars>>
    /\ UNCHANGED <<gemini_service, settings>>

\* 6. return ChatResponse(...)
ChatRespond ==
    /\ chat.pc = "respond"
    /\ chat' = [Event("respond") EXCEPT
                  !.pc = "done",
                  !.http = HttpResponse(200, chat.ai_response, chat.filtered,
                                        chat.chat_log.id)]
    /\ UNCHANGED <<blocked_keywords, text, call, result, history>>
    /\ UNCHANGED <<docVars, instances, retryVars, threadVars>>
    /\ UNCHANGED <<gemini_service, settings, chat_logs>>

\* The service as the import of the module leaves it: no key in the
\* environment, a key and a client, or a key and a set-up that raised.
ApiKey == "key"
GeminiServices ==
    {GeminiAPIService(None, TRUE), GeminiAPIService(ApiKey, TRUE),
     GeminiAPIService(ApiKey, FALSE)}

InitChat ==
    /\ blocked_keywords = BLOCKED_KEYWORDS
    /\ text = <<>>
    /\ call = [op |-> "init", arg |-> <<>>]
    /\ result = None
    /\ history = NoHistory
    /\ OneInstance /\ NoDocuments /\ NoRetry /\ NoThreads
    /\ gemini_service \in GeminiServices
    /\ settings \in SettingsInputs
    /\ chat = NoRequest
    /\ chat_logs = <<>>

NextChat ==
    \/ \E user_id \in Users, message \in ChatMessages,
          context_limit \in ContextLimits :
           ChatArrives(user_id, message, TRUE, context_limit)
    \/ \E user_id \in Users, message \in ChatMessages :
           ChatArrives(user_id, message, FALSE, DefaultContextLimit)
    \/ ChatValidate
    \/ ChatFilter
    \/ ChatHistory
    \/ ChatHistoryFails
    \/ ChatGenerate
    \/ ChatCommit
    \/ ChatCommitFails
    \/ ChatRefreshFails
    \/ ChatRespond

SpecChat == InitChat /\ [][NextChat]_vars

\* The same handler on a table that holds rows of earlier conversations:
\* two rows of one user, or one row of each user.
EarlierOne == <<"o", "n", "e">>
EarlierTwo == <<"t", "w", "o">>
EarlierRow(id, user_id, message) ==
    [id |-> id, user_id |-> user_id, message |-> message,
     response |-> AnswerText, filtered |-> FALSE]
EarlierTables ==
    {<<>>,
     <<EarlierRow(1, "user1", EarlierOne), EarlierRow(2, "user1", EarlierTwo)>>,
     <<EarlierRow(1, "user1", EarlierOne), EarlierRow(2, "user2", EarlierTwo)>>}

InitContext ==
    /\ blocked_keywords = BLOCKED_KEYWORDS
    /\ text = <<>>
    /\ call = [op |-> "init", arg |-> <<>>]
    /\ result = None
    /\ history = NoHistory
    /\ OneInstance /\ NoDocuments /\ NoRetry /\ NoThreads
    /\ gemini_service = GeminiAPIService(ApiKey, TRUE)
    /\ settings = DefaultSettings
    /\ chat = NoRequest
    /\ chat_logs \in EarlierTables

SpecContext == InitContext /\ [][NextChat]_vars

(***************************************************************************)
(* The document endpoints (app/api/documents.py) and the RAG service       *)
(* (app/services/rag_service.py).  A text is a sequence of characters, a   *)
(* metadata dict a function from keys to values.  The embedding client and *)
(* the vector store belong to libraries: setting them up, and adding to    *)
(* the store, either works or raises.                                      *)
(***************************************************************************)
chunk_size == 512
chunk_overlap == 50

\* RAGService.initialize: nothing when initialized; otherwise the client
\* and the store are set up, or the except branch leaves the service as it
\* was.
initialize(self, outcome) ==
    IF self.is_initialized THEN self
    ELSE IF outcome = "raises"
    THEN [self EXCEPT !.is_initialized = FALSE]
    ELSE [is_initialized |-> TRUE,
          embeddings |-> "models/text-embedding-004",
          vectorstore |-> [created |-> TRUE, chunks |-> <<>>]]

\* The argument metadatas: Optional[List[dict]], None or a list.
NoList == [given |-> FALSE, list |-> <<>>]
Given(list) == [given |-> TRUE, list |-> list]

\* Document(page_content=text, metadata=meta or {}) for the pairs of
\* zip(texts, metadatas or [{}] * len(texts)): None and the empty list
\* are replaced, and zip stops at the shorter of its two arguments.
NoMetadata == [key \in {} |-> ""]
MinOf(a, b) == IF a <= b THEN a ELSE b
Documents(texts, metadatas) ==
    LET metas == IF ~metadatas.given \/ metadatas.list = <<>>
                 THEN [i \in 1..Len(texts) |-> NoMetadata]
                 ELSE metadatas.list
    IN [i \in 1..MinOf(Len(texts), Len(metas)) |->
           [page_content |-> texts[i], metadata |-> metas[i]]]

\* RecursiveCharacterTextSplitter.split_text on a text of at most
\* chunk_size characters, which stays whole, and on a longer one that has
\* none of the separators: pieces of chunk_size characters, each beginning
\* with the last chunk_overlap characters of the piece before.
RECURSIVE SplitFrom(_, _)
SplitFrom(t, start) ==
    IF t = <<>> THEN <<>>
    ELSE IF Len(t) - start + 1 <= chunk_size
    THEN <<SubSeq(t, start, Len(t))>>
    ELSE <<SubSeq(t, start, start + chunk_size - 1)>>
             \o SplitFrom(t, start + chunk_size - chunk_overlap)

\* text_splitter.split_documents: the chunks of every document, each with
\* the metadata of its document.
RECURSIVE split_documents(_)
split_documents(documents) ==
    IF documents = <<>> THEN <<>>
    ELSE LET pieces == SplitFrom(Head(documents).page_content, 1)
         IN [k \in 1..Len(pieces) |->
                [page_content |-> pieces[k],
                 metadata |-> Head(documents).metadata]]
            \o split_documents(Tail(documents))

\* RAGService.add_documents: the service after the call, the documents it
\* built, and whether it raised.  A service whose set-up failed has no
\* store, and the call on it raises.
add_documents(self, texts, metadatas, init, outcome) ==
    LET ready == initialize(self, init)
        documents == Documents(texts, metadatas)
    IN IF ~ready.vectorstore.created \/ outcome = "raises"
       THEN [service |-> ready, documents |-> documents, raised |-> TRUE]
       ELSE [service |-> [ready EXCEPT !.vectorstore.chunks =
                                    @ \o split_documents(documents)],
             documents |-> documents,
             raised |-> FALSE]

\* RAGService.get_document_count
get_document_count(self) ==
    IF ~self.is_initialized \/ ~self.vectorstore.created THEN 0
    ELSE Len(self.vectorstore.chunks)

\* What the library calls can do.
Outcomes == {"ok", "raises"}

\* The texts of the requests: a short one, and one of more than chunk_size
\* characters.
TextShort == <<"a", " ", "b">>
TextLong == [i \in 1..(chunk_size + 1) |-> "x"]
MetaOne == [source |-> "one.txt"]
MetaTwo == [source |-> "two.txt"]
UploadRequests ==
    [texts : {<<TextShort>>, <<TextLong, TextShort>>},
     metadatas : {NoList, Given(<<>>), Given(<<MetaOne>>),
                  Given(<<MetaOne, MetaTwo>>)}]

\* DocumentUploadResponse
DocumentUploadResponse(success, message, document_count) ==
    [success |-> success, message |-> message,
     document_count |-> document_count]

\* What the client gets for the value an endpoint with
\* response_model=DocumentUploadResponse returns: the fields of the model,
\* and no other key of a dict.
ResponseModel(returned) ==
    [f \in DOMAIN returned \cap {"success", "message", "document_count"} |->
        returned[f]]

\* The request ends with HTTPException(500).
ServerError(op, request) ==
    [NoUpload EXCEPT !.pc = "done", !.served = upload.served + 1,
                     !.op = op, !.request = request,
                     !.http = [status |-> 500, body |-> None]]

\* POST /documents/upload: upload_documents(request).  The message is kept
\* as the number it states.
UploadDocuments(request) ==
    /\ upload.pc \in {"idle", "done"}
    /\ upload.served < MaxRequests
    /\ \E init \in Outcomes, outcome \in Outcomes :
         \E added \in {add_documents(rag_service, request.texts,
                                     request.metadatas, init, outcome)} :
           /\ rag_service' = added.service
           /\ upload' =
                IF ~added.service.is_initialized \/ added.raised
                THEN ServerError("upload_documents", request)
                ELSE [NoUpload EXCEPT
                         !.pc = "done",
                         !.served = upload.served + 1,
                         !.op = "upload_documents",
                         !.request = request,
                         !.handed = added.documents,
                         !.returned =
                             DocumentUploadResponse(
                                 TRUE, Len(request.texts),
                                 get_document_count(added.service)),
                         !.http =
                             [status |-> 200,
                              body |-> ResponseModel(
                                  DocumentUploadResponse(
                                      TRUE, Len(request.texts),
                                      get_document_count(added.service)))]]
    /\ UNCHANGED <<blocked_keywords, text, call, result, history>>
    /\ UNCHANGED <<instances, retryVars, threadVars, chatVars>>

\* Path(filename).suffix.lower() for a file name without a directory: from
\* the last dot on, unless the name begins or ends with it.
LastDot(filename) ==
    IF \E i \in 1..Len(filename) : filename[i] = "."
    THEN CHOOSE i \in 1..Len(filename) :
             /\ filename[i] = "."
             /\ \A j \in (i + 1)..Len(filename) : filename[j] /= "."
    ELSE 0
Suffix(filename) ==
    IF LastDot(filename) <= 1 \/ LastDot(filename) = Len(filename)
    THEN <<>>
    ELSE ToLower(SubSeq(filename, LastDot(filename), Len(filename)))

\* The suffixes of the dict parsers of FileParser.parse_file.
Suffixes ==
    {<<".", "p", "d", "f">>, <<".", "d", "o", "c", "x">>,
     <<".", "d", "o", "c">>, <<".", "x", "l", "s", "x">>,
     <<".", "x", "l", "s">>, <<".", "p", "p", "t", "x">>,
     <<".", "p", "p", "t">>, <<".", "h", "t", "m", "l">>,
     <<".", "h", "t", "m">>, <<".", "t", "x", "t">>,
     <<".", "m", "d">>, <<".", "c", "s", "v">>}

\* FileParser.parse_file: ValueError for a suffix without a parser;
\* otherwise what the parser of the suffix does with the content.  The
\* parsers belong to libraries, so the content of a file is kept as what
\* its parser makes of it: the text it extracts, or that it raises, which
\* every parser turns into ValueError.
ValueError == [raised |-> "ValueError", text |-> <<>>]
parse_file(filename, file_content) ==
    IF Suffix(filename) \notin Suffixes THEN ValueError
    ELSE IF ~file_content.readable THEN ValueError
    ELSE [raised |-> "", text |-> file_content.text]

\* text.strip() is empty.
Whitespace == {" ", "\t", "\n", "\r"}
Blank(t) == \A i \in 1..Len(t) : t[i] \in Whitespace

\* The files of the requests: a text file, a text file of blanks, a file
\* without a parser, a file named as a PDF that is none, and a long text
\* file with an upper-case suffix.
UploadFile(filename, content_type, readable, t) ==
    [filename |-> filename, content_type |-> content_type,
     content |-> [readable |-> readable, text |-> t]]
FileText ==
    UploadFile(<<"a", ".", "t", "x", "t">>, "text/plain", TRUE, TextShort)
FileBlank ==
    UploadFile(<<"b", ".", "t", "x", "t">>, "text/plain", TRUE, <<" ", "\n">>)
FileExe ==
    UploadFile(<<"c", ".", "e", "x", "e">>, None, TRUE, TextShort)
FilePdf ==
    UploadFile(<<"d", ".", "p", "d", "f">>, "application/pdf", FALSE, <<>>)
FileUpper ==
    UploadFile(<<"E", ".", "T", "X", "T">>, "text/plain", TRUE, TextLong)
FileLists ==
    {<<FileText>>, <<FileExe>>, <<FileBlank, FileText>>,
     <<FilePdf, FileUpper>>, <<FileText, FileExe>>}

\* POST /documents/upload-file: upload_file(files) begins.
UploadFileArrives(files) ==
    /\ upload.pc \in {"idle", "done"}
    /\ upload.served < MaxRequests
    /\ upload' = [NoUpload EXCEPT !.pc = "init",
                                  !.served = upload.served + 1,
                                  !.op = "upload_file",
                                  !.files = files]
    /\ UNCHANGED rag_service
    /\ UNCHANGED <<blocked_keywords, text, call, result, history>>
    /\ UNCHANGED <<instances, retryVars, threadVars, chatVars>>

\* The service is initialized when it is not yet; a failed set-up ends the
\* request with HTTPException(500).
UploadFileInit ==
    /\ upload.pc = "init"
    /\ \E init \in Outcomes :
           /\ rag_service' = initialize(rag_service, init)
           /\ upload' =
                 IF rag_service'.is_initialized
                 THEN [upload EXCEPT !.pc = "loop", !.index = 1]
                 ELSE [upload EXCEPT !.pc = "done",
                                     !.http = [status |-> 500, body |-> None]]
    /\ UNCHANGED <<blocked_keywords, text, call, result, history>>
    /\ UNCHANGED <<instances, retryVars, threadVars, chatVars>>

Failed(file, reason) == [filename |-> file.filename, reason |-> reason]

\* The except branch for a file whose read or addition raised.
FileAddFailed(file) == Append(upload.failed_files, Failed(file, "Exception"))

\* One turn of `for file in files`: read, parse, test for blank text, add
\* to the store; every exception is caught inside the loop.
UploadFileStep ==
    /\ upload.pc = "loop"
    /\ upload.index <= Len(upload.files)
    /\ \E read \in Outcomes, outcome \in Outcomes :
         \E file \in {upload.files[upload.index]} :
          \E parsed \in {parse_file(file.filename, file.content)} :
           IF read = "raises"
           THEN /\ upload' = [upload EXCEPT !.index = @ + 1,
                                 !.failed_files = FileAddFailed(file)]
                /\ UNCHANGED rag_service
           ELSE IF parsed.raised /= ""
           THEN /\ upload' = [upload EXCEPT !.index = @ + 1,
                                 !.failed_files =
                                     Append(@, Failed(file, parsed.raised))]
                /\ UNCHANGED rag_service
           ELSE IF Blank(parsed.text)
           THEN /\ upload' = [upload EXCEPT !.index = @ + 1,
                                 !.failed_files =
                                     Append(@, Failed(file, "no text"))]
                /\ UNCHANGED rag_service
           ELSE \E added \in
                      {add_documents(
                           rag_service, <<parsed.text>>,
                           Given(<< [source |-> file.filename,
                                     content_type |->
                                         IF file.content_type = None
                                         THEN "unknown"
                                         ELSE file.content_type] >>),
                           "ok", outcome)} :
                   /\ rag_service' = added.service
                   /\ upload' =
                         IF added.raised
                         THEN [upload EXCEPT !.index = @ + 1,
                                  !.failed_files = FileAddFailed(file)]
                         ELSE [upload EXCEPT !.index = @ + 1,
                                  !.handed = @ \o added.documents,
                                  !.uploaded_files =
                                      Append(@, file.filename)]
    /\ UNCHANGED <<blocked_keywords, text, call, result, history>>
    /\ UNCHANGED <<instances, retryVars, threadVars, chatVars>>

\* After the loop: the count, the message (kept as its case and its two
\* numbers), the response, and the dict with failed_files when a file
\* failed.
UploadMessage(uploaded_files, failed_files) ==
    IF uploaded_files /= <<>> /\ failed_files = <<>>
    THEN <<"all", Len(uploaded_files)>>
    ELSE IF uploaded_files /= <<>> /\ failed_files /= <<>>
    THEN <<"some", Len(uploaded_files), Len(failed_files)>>
    ELSE <<"none", Len(failed_files)>>

UploadFileRespond ==
    /\ upload.pc = "loop"
    /\ upload.index > Len(upload.files)
    /\ \E response \in
              {DocumentUploadResponse(
                   Len(upload.uploaded_files) > 0,
                   UploadMessage(upload.uploaded_files, upload.failed_files),
                   get_document_count(rag_service))} :
         \E returned \in
                {IF upload.failed_files /= <<>>
                 THEN [f \in DOMAIN response \cup {"failed_files"} |->
                          IF f = "failed_files" THEN upload.failed_files
                          ELSE response[f]]
                 ELSE response} :
             upload' = [upload EXCEPT
                           !.pc = "done",
                           !.returned = returned,
                           !.http = [status |-> 200,
                                     body |-> ResponseModel(returned)]]
    /\ UNCHANGED rag_service
    /\ UNCHANGED <<blocked_keywords, text, call, result, history>>
    /\ UNCHANGED <<instances, retryVars, threadVars, chatVars>>

InitDocuments ==
    /\ blocked_keywords = BLOCKED_KEYWORDS
    /\ text = <<>>
    /\ call = [op |-> "init", arg |-> <<>>]
    /\ result = None
    /\ history = NoHistory
    /\ OneInstance /\ NoRetry /\ NoThreads /\ NoChat
    /\ NoDocuments

NextDocuments ==
    \/ \E request \in UploadRequests : UploadDocuments(request)
    \/ \E files \in FileLists : UploadFileArrives(files)
    \/ UploadFileInit
    \/ UploadFileStep
    \/ UploadFileRespond

SpecDocuments == InitDocuments /\ [][NextDocuments]_vars

(***************************************************************************)
(* Vocabulary of the properties                                            *)
(***************************************************************************)
\* The state holds the FilterResult of a filter_message call; the keyword
\* list is the one the call ran with, since every administrative call
\* replaces call and result.
FilterCall == call.op \in {"filter_message", "filter_masked"}

\* keyword is a case-insensitive substring of t.
CaseInsensitiveIn(keyword, t) ==
    \E off \in 0..(Len(t) - Len(keyword)) :
        \A j \in 1..Len(keyword) : LowerChar(t[off + j]) = LowerChar(keyword[j])

\* The positions in the list of the keywords that occur in t.
MatchingKeywords(t) ==
    {i \in 1..Len(blocked_keywords) : CaseInsensitiveIn(blocked_keywords[i], t)}

SomeKeywordIn(t) == MatchingKeywords(t) /= {}

\* One of the five detectors matches somewhere in t.
HasPii(t) ==
    \/ FindAll(EMAIL, t) /= <<>>
    \/ FindAll(PHONE, t) /= <<>>
    \/ FindAll(SSN, t) /= <<>>
    \/ FindAll(CARD, t) /= <<>>
    \/ FindAll(IP_ADDRESS, t) /= <<>>

StartsWith(t, prefix) ==
    Len(t) >= Len(prefix) /\ SubSeq(t, 1, Len(prefix)) = prefix

EndsWith(t, suffix) ==
    Len(t) >= Len(suffix)
        /\ SubSeq(t, Len(t) - Len(suffix) + 1, Len(t)) = suffix

\* item is the description of a PII match: a category label and the match.
IsPiiDescription(item) ==
    \E label \in {EmailLabel, PhoneLabel, SsnLabel, CardLabel, IpLabel} :
        StartsWith(item, label)

\* The descriptions of the matches of one detector in t, left to right.
Descriptions(label, pattern, t) ==
    LET found == FindAll(pattern, t)
    IN [i \in 1..Len(found) |-> label \o found[i]]

Min(S) == CHOOSE x \in S : \A y \in S : x <= y

(***************************************************************************)
(* C1: filter_message returns is_filtered = true if and only if at least   *)
(* one keyword of the list is a case-insensitive substring of the text; a  *)
(* text with PII matches and no keyword is not filtered.                   *)
(***************************************************************************)
C1_FilteredIffKeyword ==
    FilterCall =>
        /\ result.is_filtered <=> SomeKeywordIn(call.arg)
        /\ (~SomeKeywordIn(call.arg) /\ HasPii(call.arg)) => ~result.is_filtered

\* A text with PII matches and no keyword has been filtered, under a keyword
\* list that lost its first keyword and got a new one.
C1_Witness ==
    /\ FilterCall
    /\ ~InList(blocked_keywords, KwHacking)
    /\ InList(blocked_keywords, KwIp)
    /\ ~SomeKeywordIn(call.arg)
    /\ HasPii(call.arg)
    /\ ~result.is_filtered
    /\ result.detected_items /= <<>>

(***************************************************************************)
(* C2: when several keywords of the list occur in the text, exactly one is *)
(* reported: detected_items is the one-element list of the matching        *)
(* keyword that comes first in the list, and reason cites that keyword.    *)
(***************************************************************************)
C2_FirstMatchWins ==
    (FilterCall /\ Cardinality(MatchingKeywords(call.arg)) >= 2) =>
        LET first == blocked_keywords[Min(MatchingKeywords(call.arg))]
        IN /\ result.detected_items = <<first>>
           /\ result.reason = BlockReasonPrefix \o first

\* Two keywords occur in the text and the one reported is not the one that
\* stands first in the text: KwHacking was removed and added again, so that
\* KwApiKey now precedes it in the list.
C2_Witness ==
    /\ FilterCall
    /\ call.arg = KwHacking \o TokApiKey
    /\ Cardinality(MatchingKeywords(call.arg)) >= 2
    /\ result.detected_items = <<KwApiKey>>

(***************************************************************************)
(* C3: keyword precedence.  For a text that contains a blocked keyword and *)
(* PII matches, is_filtered is true, masked_text is the original text      *)
(* character for character and detected_items holds no PII description.    *)
(***************************************************************************)
C3_KeywordPrecedence ==
    (FilterCall /\ SomeKeywordIn(call.arg) /\ HasPii(call.arg)) =>
        /\ result.is_filtered
        /\ result.masked_text = call.arg
        /\ \A i \in 1..Len(result.detected_items) :
               ~IsPiiDescription(result.detected_items[i])

\* A text with a keyword and an email address has been filtered.
C3_Witness ==
    /\ call.op = "filter_message"
    /\ SomeKeywordIn(call.arg)
    /\ FindAll(EMAIL, call.arg) /= <<>>
    /\ result.is_filtered

(***************************************************************************)
(* C4: in a result that is not blocked, detected_items lists the email     *)
(* descriptions, then the phone, national-ID, card and IP descriptions,    *)
(* each category in the left-to-right order of its matches, and every      *)
(* detector finds its matches in the original text.                        *)
(***************************************************************************)
C4_DetectorOrder ==
    (FilterCall /\ ~result.is_filtered) =>
        result.detected_items =
            Descriptions(EmailLabel, EMAIL, call.arg)
                \o Descriptions(PhoneLabel, PHONE, call.arg)
                \o Descriptions(SsnLabel, SSN, call.arg)
                \o Descriptions(CardLabel, CARD, call.arg)
                \o Descriptions(IpLabel, IP_ADDRESS, call.arg)

\* A phone number is reported although the email address around it was
\* masked first: the phone detector ran on the original text.
C4_Witness ==
    /\ FilterCall
    /\ ~result.is_filtered
    /\ Len(result.detected_items) = 2
    /\ StartsWith(result.detected_items[1], EmailLabel)
    /\ StartsWith(result.detected_items[2], PhoneLabel)
    /\ ~Contains(result.masked_text, PhoneMask)

(***************************************************************************)
(* C5: in a result that is not blocked, masked_text is the text obtained   *)
(* by substituting, in the order email, phone, national ID, card, IP,      *)
(* every match of the detector's pattern by its placeholder, each          *)
(* substitution applied to the output of the one before.                   *)
(***************************************************************************)
C5_CumulativeMasking ==
    (FilterCall /\ ~result.is_filtered) =>
        result.masked_text =
            Sub(IP_ADDRESS, IpMask,
                Sub(CARD, CardMask,
                    Sub(SSN, SsnMask,
                        Sub(PHONE, PhoneMask,
                            Sub(EMAIL, EmailMask, call.arg)))))

\* The example of the specification: an email address and a phone number.
C5_Witness ==
    /\ call.op = "filter_message"
    /\ call.arg = TokEmail \o TokPhone
    /\ result.masked_text = <<" ">> \o EmailMask \o <<" ">> \o PhoneMask

(***************************************************************************)
(* C6: for a text with no blocked keyword and no match of any detector,    *)
(* filter_message returns is_filtered = false, detected_items = [],        *)
(* reason = "" and masked_text identical to the input.                     *)
(***************************************************************************)
C6_CleanInput ==
    (FilterCall /\ ~SomeKeywordIn(call.arg) /\ ~HasPii(call.arg)) =>
        /\ result.is_filtered = FALSE
        /\ result.detected_items = <<>>
        /\ result.reason = <<>>
        /\ result.masked_text = call.arg

\* A non-empty clean text has been filtered.
C6_Witness ==
    /\ call.op = "filter_message"
    /\ Len(call.arg) >= 2
    /\ ~SomeKeywordIn(call.arg)
    /\ ~HasPii(call.arg)
    /\ result.masked_text = call.arg

(***************************************************************************)
(* C7: reason is of exactly one of three kinds: the keyword-block          *)
(* explanation exactly when is_filtered; the masking summary exactly when  *)
(* is_filtered is false and detected_items is not empty, and then the      *)
(* number it states is the length of detected_items; the empty string      *)
(* exactly when is_filtered is false and detected_items is empty.          *)
(***************************************************************************)
IsBlockReason(reason) == StartsWith(reason, BlockReasonPrefix)

IsMaskSummary(reason) ==
    /\ Len(reason) > Len(MaskReasonHead) + Len(MaskReasonTail)
    /\ StartsWith(reason, MaskReasonHead)
    /\ EndsWith(reason, MaskReasonTail)

\* The characters between the head and the tail of a masking summary.
SummaryNumber(reason) ==
    SubSeq(reason, Len(MaskReasonHead) + 1, Len(reason) - Len(MaskReasonTail))

C7_ReasonKinds ==
    FilterCall =>
        /\ IsBlockReason(result.reason) <=> result.is_filtered
        /\ IsMaskSummary(result.reason) <=>
               (~result.is_filtered /\ result.detected_items /= <<>>)
        /\ IsMaskSummary(result.reason) =>
               SummaryNumber(result.reason) = Decimal(Len(result.detected_items))
        /\ result.reason = <<>> <=>
               (~result.is_filtered /\ result.detected_items = <<>>)

\* A masking summary that counts two items.
C7_Witness ==
    /\ FilterCall
    /\ ~result.is_filtered
    /\ Len(result.detected_items) = 2
    /\ result.reason = MaskReasonHead \o <<"2">> \o MaskReasonTail

(***************************************************************************)
(* C8: idempotence of masking.  As claimed: for a result r that is not     *)
(* blocked, filter_message on r.masked_text with the same keyword list     *)
(* yields detected_items = [] and a masked_text equal to r.masked_text.    *)
(***************************************************************************)
C8_Original ==
    call.op = "filter_masked" =>
        /\ result.detected_items = <<>>
        /\ result.masked_text = call.arg

\* C8 as amended: filter_message on r.masked_text returns a masked_text
\* equal to r.masked_text and no PII description; detected_items is empty
\* unless a keyword of the list occurs in r.masked_text (inside a
\* placeholder or across its bracket), and then the call is blocked and
\* detected_items holds that keyword alone.
C8_MaskingIdempotent ==
    call.op = "filter_masked" =>
        /\ result.masked_text = call.arg
        /\ \A i \in 1..Len(result.detected_items) :
               ~IsPiiDescription(result.detected_items[i])
        /\ IF SomeKeywordIn(call.arg)
           THEN /\ result.is_filtered
                /\ Len(result.detected_items) = 1
                /\ InList(blocked_keywords, result.detected_items[1])
           ELSE result.detected_items = <<>>

\* A text with two placeholders has been filtered again and nothing was
\* detected in it.
C8_Witness ==
    /\ call.op = "filter_masked"
    /\ Contains(call.arg, EmailMask)
    /\ Contains(call.arg, IpMask)
    /\ result.detected_items = <<>>
    /\ result.masked_text = call.arg

(***************************************************************************)
(* C9: keyword matching ignores letter case.  When the list holds a        *)
(* keyword in lower case, every text that contains it in any mix of upper  *)
(* and lower case letters is blocked, and changing only the letter case of *)
(* a text never changes whether it is blocked.                             *)
(***************************************************************************)
UpperChar(c) ==
    IF c \in Lower THEN CHOOSE u \in Upper : LowerChar(u) = c ELSE c

\* str.upper() on the texts of the model (no character changes length).
ToUpper(s) == [i \in 1..Len(s) |-> UpperChar(s[i])]

\* Every second letter changes its case.
Alternate(s) ==
    [i \in 1..Len(s) |-> IF i % 2 = 0 THEN UpperChar(s[i]) ELSE LowerChar(s[i])]

C9_CaseInsensitive ==
    FilterCall =>
        /\ \A i \in 1..Len(blocked_keywords) :
               (/\ blocked_keywords[i] = ToLower(blocked_keywords[i])
                /\ CaseInsensitiveIn(blocked_keywords[i], call.arg))
                   => result.is_filtered
        /\ \A variant \in {ToLower(call.arg), ToUpper(call.arg),
                           Alternate(call.arg)} :
               (FirstBlocked(blocked_keywords, variant, 1) /= 0)
                   = result.is_filtered

\* The lower-case keyword "ip" blocked a text that holds it in upper case
\* only.
C9_Witness ==
    /\ call.op = "filter_message"
    /\ InList(blocked_keywords, KwIp)
    /\ ~Contains(call.arg, KwIp)
    /\ Contains(call.arg, TokIpUpper)
    /\ result.is_filtered
    /\ result.detected_items = <<KwIp>>

(***************************************************************************)
(* C10: keyword-list mutation visibility.  As claimed: after               *)
(* add_blocked_keyword(k), every later filter_message call on a text       *)
(* containing k returns is_filtered = true; after a following              *)
(* remove_blocked_keyword(k), filter_message on that text no longer        *)
(* blocks.                                                                 *)
(***************************************************************************)
C10_Original ==
    (call.op = "filter_message" /\ Contains(call.arg, history.keyword)) =>
        /\ history.stage = "added" => result.is_filtered
        /\ history.stage = "removed" => ~result.is_filtered

\* C10 as amended: after add_blocked_keyword(k), every later filter_message
\* call on a text containing k returns is_filtered = true; after a
\* following remove_blocked_keyword(k), k is no longer in the list and
\* filter_message on that text blocks only when another keyword that is
\* still in the list occurs in it.
C10_MutationVisible ==
    (call.op = "filter_message" /\ Contains(call.arg, history.keyword)) =>
        /\ history.stage = "added" =>
               /\ InList(blocked_keywords, history.keyword)
               /\ result.is_filtered
        /\ history.stage = "removed" =>
               /\ ~InList(blocked_keywords, history.keyword)
               /\ result.is_filtered <=>
                      \E i \in 1..Len(blocked_keywords) :
                          /\ blocked_keywords[i] /= history.keyword
                          /\ CaseInsensitiveIn(blocked_keywords[i], call.arg)

\* After add_blocked_keyword("ip") and remove_blocked_keyword("ip"), a text
\* containing "ip" is not blocked.
C10_Witness ==
    /\ call.op = "filter_message"
    /\ history = [keyword |-> KwIp, stage |-> "removed"]
    /\ Contains(call.arg, KwIp)
    /\ ~result.is_filtered

(***************************************************************************)
(* C11: the administrative operations are idempotent.                      *)
(* add_blocked_keyword(k) when k is in the list, and                       *)
(* remove_blocked_keyword(k) when k is not, leave the list as it was, and  *)
(* the same call made again right after either operation leaves the list   *)
(* as the first call left it.                                              *)
(***************************************************************************)
C11_Idempotent ==
    [][ /\ call'.op = "add_blocked_keyword" =>
              /\ InList(blocked_keywords, call'.arg) =>
                     blocked_keywords' = blocked_keywords
              /\ add_blocked_keyword(blocked_keywords', call'.arg)
                     = blocked_keywords'
        /\ call'.op = "remove_blocked_keyword" =>
              /\ ~InList(blocked_keywords, call'.arg) =>
                     blocked_keywords' = blocked_keywords
              /\ remove_blocked_keyword(blocked_keywords', call'.arg)
                     = blocked_keywords'
      ]_vars

\* add_blocked_keyword was called with the first keyword of the initial
\* list while it was in the list (a keyword removed and added again is at
\* the end), and the list is the initial one.
C11_Witness ==
    /\ call = [op |-> "add_blocked_keyword", arg |-> KwHacking]
    /\ blocked_keywords = BLOCKED_KEYWORDS

(***************************************************************************)
(* C13: filter_message is total.  Every call, whatever the text (the empty *)
(* text and texts that several detectors match included), returns a        *)
(* FilterResult: a Boolean is_filtered, a text masked_text, a list         *)
(* detected_items of texts and a text reason.                              *)
(***************************************************************************)
IsString(t) == DOMAIN t = 1..Len(t)

IsFilterResult(r) ==
    /\ DOMAIN r = {"is_filtered", "masked_text", "detected_items", "reason"}
    /\ r.is_filtered \in BOOLEAN
    /\ IsString(r.masked_text)
    /\ IsString(r.reason)
    /\ DOMAIN r.detected_items = 1..Len(r.detected_items)
    /\ \A i \in 1..Len(r.detected_items) : IsString(r.detected_items[i])

C13_Total == FilterCall => IsFilterResult(result)

\* filter_message("") returned the result of a clean text.
C13_Witness ==
    /\ call = [op |-> "filter_message", arg |-> <<>>]
    /\ IsFilterResult(result)
    /\ result.masked_text = <<>>
    /\ result.detected_items = <<>>

C15_NoSideEffect ==
    [][ /\ call'.op \in {"filter_message", "filter_masked"} =>
               blocked_keywords' = blocked_keywords
        /\ blocked_keywords' /= blocked_keywords =>
               call'.op \in {"add_blocked_keyword", "remove_blocked_keyword"}
      ]_vars

\* A blocked call was made on a list that an administrative call had
\* changed, and the list is still the changed one.
C15_Witness ==
    /\ call.op = "filter_message"
    /\ result.is_filtered
    /\ result.detected_items = <<KwIp>>
    /\ blocked_keywords = Append(BLOCKED_KEYWORDS, KwIp)

(***************************************************************************)
(* C20: national-ID detection is shape-based.  A run is 6 digits, an       *)
(* optional hyphen and 7 digits between two word boundaries, whatever the  *)
(* digits are.                                                             *)
(***************************************************************************)
AllDigits(t, from, n) == \A j \in from..(from + n - 1) : t[j] \in Digit

\* The runs of t, as <<start, position after the last character>> pairs.
SsnRuns(t) ==
    {<<pos, pos + len>> : pos \in 1..Len(t), len \in {13, 14}} \cap
    {r \in (1..Len(t)) \X (1..(Len(t) + 1)) :
        /\ AtBoundary(t, r[1])
        /\ AtBoundary(t, r[2])
        /\ \/ /\ r[2] - r[1] = 13
              /\ AllDigits(t, r[1], 13)
           \/ /\ r[2] - r[1] = 14
              /\ AllDigits(t, r[1], 6)
              /\ t[r[1] + 6] = "-"
              /\ AllDigits(t, r[1] + 7, 7)}

\* The number of places of t where piece stands.
Occurrences(t, piece) ==
    Cardinality({off \in 0..(Len(t) - Len(piece)) :
                    \A j \in 1..Len(piece) : t[off + j] = piece[j]})

\* The run r lies in a span of t that the e-mail detector, which runs
\* before the national-ID detector, replaces.
InEmail(t, r) ==
    LET sp == Spans(EMAIL, t, 1)
    IN \E i \in 1..Len(sp) : sp[i][1] < r[2] /\ r[1] < sp[i][2]

C12_Original ==
    scan.pc = "done" =>
        ((\E keyword \in scan.whole_call : CaseInsensitiveIn(keyword, text))
            => scan.result.is_filtered)

\* A call ran to its end while the list was being changed and did not
\* block although a keyword of the whole call occurs in the text.
C12_Skipped ==
    /\ scan.pc = "done"
    /\ ~scan.result.is_filtered
    /\ \E keyword \in scan.whole_call : CaseInsensitiveIn(keyword, text)

(***************************************************************************)
(* Vocabulary of the properties of chat()                                  *)
(***************************************************************************)
\* The request in hand has a row in the table, and the row.
RowWritten == Len(chat_logs) > chat.rows_before
Row == chat_logs[Len(chat_logs)]

\* The request in hand ended with a ChatResponse.
Responded == chat.pc = "done" /\ chat.http.status = 200

\* The position of the first event e of the request in hand, 0 when there
\* is none.
FirstEvent(e) ==
    IF \E i \in 1..Len(chat.events) : chat.events[i] = e
    THEN Min({i \in 1..Len(chat.events) : chat.events[i] = e})
    ELSE 0
Did(e) == FirstEvent(e) /= 0

(***************************************************************************)
(* C16: for a request whose message the filter blocked, neither            *)
(* generate_response nor generate_response_with_context is called, the     *)
(* response is the fixed refusal, and filtered = true is stored in the row *)
(* and returned to the client.                                             *)
(***************************************************************************)
C16_BlockedNoBackend ==
    (Did("filter") /\ chat.filter_result.is_filtered) =>
        /\ chat.calls = <<>>
        /\ ~Did("call")
        /\ RowWritten => Row.filtered /\ Row.response = RefusalText
        /\ Responded =>
               /\ chat.http.response = RefusalText
               /\ chat.http.filtered
               /\ Row.id = chat.http.log_id

\* A blocked request of a user who has an earlier conversation, with
\* use_context set, was answered.
C16_Witness ==
    /\ Responded
    /\ chat.filter_result.is_filtered
    /\ chat.request.use_context
    /\ chat.conversation_history /= <<>>
    /\ chat.http.response = RefusalText
    /\ Row.filtered

(***************************************************************************)
(* C17: no PII is stored at rest.  As claimed: the message of every row of *)
(* chat_logs and the message of every backend call is the masked_text of   *)
(* the filter, and no stored message contains a span that one of the       *)
(* detectors matches.                                                      *)
(***************************************************************************)
C17_Original ==
    /\ \A i \in 1..Len(chat.calls) :
           /\ chat.calls[i].message = chat.filter_result.masked_text
           /\ ~HasPii(chat.calls[i].message)
    /\ RowWritten => Row.message = chat.filter_result.masked_text
    /\ \A i \in 1..Len(chat_logs) : ~HasPii(chat_logs[i].message)

\* The row of a blocked message holds the message as it came, with the
\* national ID in it.
C17_RawStored ==
    /\ RowWritten
    /\ Row.filtered
    /\ Row.message = chat.request.message
    /\ HasPii(Row.message)

(***************************************************************************)
(* C18: a chat request inserts at most one row of chat_logs.  A request    *)
(* that ended with a ChatResponse committed exactly one new row, and       *)
(* log_id is the id of that row, which no other row has; a request whose   *)
(* commit failed was rolled back, ended with status 500 and left no row; a *)
(* request rejected for the length of its message ended with status 400    *)
(* and left no row.                                                        *)
(***************************************************************************)
TooLong == Len(chat.request.message) > settings.MAX_MESSAGE_LENGTH

C18_OneRow ==
    /\ Len(chat_logs) <= chat.rows_before + 1
    /\ Responded =>
           /\ Len(chat_logs) = chat.rows_before + 1
           /\ Row.id = chat.http.log_id
           /\ \A i \in 1..(Len(chat_logs) - 1) :
                  chat_logs[i].id /= chat.http.log_id
    /\ Did("commit_failed") =>
           /\ Did("rollback")
           /\ chat.pc = "done"
           /\ chat.http.status = 500
           /\ ~RowWritten
    /\ (Did("validate") /\ TooLong) =>
           /\ chat.pc = "done"
           /\ chat.http.status = 400
           /\ ~RowWritten
    /\ chat.http.status = 400 => TooLong

\* The commit of the second request failed after the first request had
\* stored its row: the table still holds that one row.
C18_Witness ==
    /\ chat.pc = "done"
    /\ Did("commit_failed")
    /\ chat.http.status = 500
    /\ chat.rows_before = 1
    /\ Len(chat_logs) = 1

(***************************************************************************)
(* C19: a chat request is handled in the order validate, filter, fetch     *)
(* history, call the backend, persist, respond.  The filter has run after  *)
(* the validation and before any history read, backend call or database    *)
(* write of the request; the history read and the backend call, when made, *)
(* come before the write; the response comes only after the commit; and no *)
(* step is taken twice.                                                    *)
(***************************************************************************)
\* b was done only after a.
After(a, b) == Did(b) => (Did(a) /\ FirstEvent(a) < FirstEvent(b))

\* a and b were not both done, or a first.
InOrder(a, b) == (Did(a) /\ Did(b)) => FirstEvent(a) < FirstEvent(b)

C19_FixedOrder ==
    /\ \A i, j \in 1..Len(chat.events) :
           chat.events[i] = chat.events[j] => i = j
    /\ After("validate", "filter")
    /\ \A e \in {"read", "read_failed", "call", "commit", "commit_failed"} :
           After("filter", e)
    /\ InOrder("read", "call")
    /\ \A e \in {"commit", "commit_failed"} :
           InOrder("read", e) /\ InOrder("call", e)
    /\ After("commit", "respond")
    /\ Responded <=> Did("respond")

\* A request with use_context set went through all six steps.
C19_Witness ==
    /\ Responded
    /\ chat.events
           = <<"validate", "filter", "read", "call", "commit", "respond">>

(***************************************************************************)
(* C21: the samples of test_filter.  As claimed: for a message that        *)
(* carries an e-mail address, a phone number, a national ID, a card number *)
(* or an IP address, filter_message reports the item in detected_items and *)
(* replaces it by its placeholder in masked_text, also when Hangul letters *)
(* follow the item without a space.                                        *)
(***************************************************************************)
\* The sample items with the label and the placeholder of their category.
Samples ==
    {<<TokEmail, EmailLabel, EmailMask>>, <<TokPhone, PhoneLabel, PhoneMask>>,
     <<TokSsn, SsnLabel, SsnMask>>, <<TokCard, CardLabel, CardMask>>,
     <<TokIp, IpLabel, IpMask>>}

C21_Original ==
    \A sample \in Samples :
        \A suffix \in {<<>>, TokHangul} :
            call = [op |-> "filter_message", arg |-> sample[1] \o suffix] =>
                /\ result.detected_items = <<sample[2] \o Tail(sample[1])>>
                /\ result.masked_text = <<" ">> \o sample[3] \o suffix

\* filter_message has returned the card number followed by a Hangul letter
\* as it came, and reports nothing.
C21_HangulSuffix ==
    /\ call = [op |-> "filter_message", arg |-> TokCard \o TokHangul]
    /\ ~result.is_filtered
    /\ result.detected_items = <<>>
    /\ result.masked_text = TokCard \o TokHangul

(***************************************************************************)
(* C22: the report and the masking agree.  As claimed: in every result     *)
(* that is not blocked, detected_items has as many entries of a category   *)
(* as masked_text has placeholders of that category, and masked_text       *)
(* without its placeholders is the input without the spans that were       *)
(* reported, so that no character of a reported span survives; also when   *)
(* the matches of different detectors overlap.                             *)
(***************************************************************************)
Detectors ==
    {<<EMAIL, EmailLabel, EmailMask>>, <<PHONE, PhoneLabel, PhoneMask>>,
     <<SSN, SsnLabel, SsnMask>>, <<CARD, CardLabel, CardMask>>,
     <<IP_ADDRESS, IpLabel, IpMask>>}

\* The positions of t inside a span that one of the detectors reports.
Reported(t) ==
    {pos \in 1..Len(t) :
        \E d \in Detectors :
            LET sp == Spans(d[1], t, 1)
            IN \E i \in 1..Len(sp) : sp[i][1] <= pos /\ pos < sp[i][2]}

\* t without the characters at the positions of the set gone.
RECURSIVE Without(_, _, _)
Without(t, gone, pos) ==
    IF pos > Len(t) THEN <<>>
    ELSE (IF pos \in gone THEN <<>> ELSE <<t[pos]>>)
             \o Without(t, gone, pos + 1)

\* The positions of t inside a placeholder.
InPlaceholder(t) ==
    {pos \in 1..Len(t) :
        \E d \in Detectors :
            \E off \in 0..(Len(t) - Len(d[3])) :
                /\ off < pos /\ pos <= off + Len(d[3])
                /\ \A j \in 1..Len(d[3]) : t[off + j] = d[3][j]}

\* The number of entries of items that begin with label.
Entries(items, label) ==
    Cardinality({i \in 1..Len(items) : StartsWith(items[i], label)})

C22_Original ==
    (call.op = "filter_message" /\ ~result.is_filtered) =>
        /\ \A d \in Detectors :
               Entries(result.detected_items, d[2])
                   = Occurrences(result.masked_text, d[3])
        /\ Without(result.masked_text, InPlaceholder(result.masked_text), 1)
               = Without(call.arg, Reported(call.arg), 1)

\* The phone number was replaced, the card number that begins with its last
\* four digits was reported, and the other twelve digits of the card number
\* are in masked_text.
C22_DigitsSurvive ==
    /\ call = [op |-> "filter_message", arg |-> TokLandline \o TokGroups]
    /\ result.detected_items
           = <<PhoneLabel \o Tail(TokLandline),
               CardLabel \o <<"4", "5", "6", "7">> \o TokGroups>>
    /\ result.masked_text = <<" ">> \o PhoneMask \o TokGroups

(***************************************************************************)
(* C23: the keyword collection is a set.  As claimed: after any sequence   *)
(* and any thread interleaving of add_blocked_keyword and                  *)
(* remove_blocked_keyword calls the list holds no string twice, and no     *)
(* call ends with an exception.                                            *)
(***************************************************************************)
NoDuplicates(keywords) ==
    \A i, j \in 1..Len(keywords) : keywords[i] = keywords[j] => i = j

C23_Original ==
    /\ NoDuplicates(blocked_keywords)
    /\ \A t \in AdminThreads : admin[t].raised = ""

\* Two threads added the same absent keyword, each passed the test before
\* the other appended, and the list holds the keyword twice.
C23_Twice ==
    /\ \A t \in AdminThreads :
           admin[t] = AdminIdle("add_blocked_keyword", KwIp, "")
    /\ Cardinality({i \in 1..Len(blocked_keywords) :
                       blocked_keywords[i] = KwIp}) = 2

(***************************************************************************)
(* C24: add_blocked_keyword of an absent keyword places it after all the   *)
(* keywords already in the list, remove_blocked_keyword deletes the named  *)
(* keyword and no other, and both leave the relative order of the other    *)
(* keywords as it was; a call that blocks reports the matching keyword     *)
(* that stands first in the list, which is therefore the one that entered  *)
(* the list earliest.                                                      *)
(***************************************************************************)
\* The position of a keyword of the list.
Position(keywords, keyword) ==
    Min({i \in 1..Len(keywords) : keywords[i] = keyword})

C24_OrderKept ==
    /\ [][/\ \A a, b \in Keywords(blocked_keywords)
                            \cap Keywords(blocked_keywords') :
                 Position(blocked_keywords, a) < Position(blocked_keywords, b)
                     => Position(blocked_keywords', a)
                            < Position(blocked_keywords', b)
          /\ (call'.op = "add_blocked_keyword"
                  /\ ~InList(blocked_keywords, call'.arg)) =>
                 /\ Len(blocked_keywords') = Len(blocked_keywords) + 1
                 /\ blocked_keywords'[Len(blocked_keywords')] = call'.arg
                 /\ SubSeq(blocked_keywords', 1, Len(blocked_keywords))
                        = blocked_keywords
          /\ call'.op = "remove_blocked_keyword" =>
                 /\ Keywords(blocked_keywords')
                        = Keywords(blocked_keywords) \ {call'.arg}
                 /\ Len(blocked_keywords')
                        = Cardinality(Keywords(blocked_keywords'))]_vars
    /\ [](FilterCall /\ result.is_filtered =>
             \A i \in MatchingKeywords(call.arg) :
                 Position(blocked_keywords, result.detected_items[1]) <= i)

\* The first keyword of the initial list was removed and added again after
\* a new keyword; a text with both reports the new keyword, which now
\* stands before it.
C24_Witness ==
    /\ call = [op |-> "filter_message", arg |-> KwHacking \o KwIp]
    /\ result.is_filtered
    /\ result.detected_items = <<KwIp>>
    /\ blocked_keywords = Tail(BLOCKED_KEYWORDS) \o <<KwIp, KwHacking>>

(***************************************************************************)
(* C25: the keyword list is one object for the whole process.  The         *)
(* attribute blocked_keywords of every SecurityFilter instance refers to   *)
(* the list of the module-level name BLOCKED_KEYWORDS; a filter_message    *)
(* call on any instance blocks exactly when a keyword of that list occurs  *)
(* in the text; so a keyword added through one instance blocks on every    *)
(* other instance, the global security_filter included, and a keyword      *)
(* removed through one instance no longer blocks on any.                   *)
(***************************************************************************)
C25_OneObject ==
    /\ \A i \in 1..Len(instances) : instances[i].blocked_keywords = ModuleList
    /\ call.op = "filter_message" =>
           /\ result.is_filtered <=> SomeKeywordIn(call.arg)
           /\ (history.stage = "added"
                   /\ CaseInsensitiveIn(history.keyword, call.arg))
                  => result.is_filtered
           /\ (history.stage = "removed" /\ result.is_filtered)
                  => result.detected_items /= <<history.keyword>>

\* A keyword added through the second instance blocks a message on the
\* global security_filter.
C25_Witness ==
    /\ call = [op |-> "filter_message", arg |-> KwIp \o TokEmail,
               instance |-> 1]
    /\ history = [keyword |-> KwIp, stage |-> "added", instance |-> 2]
    /\ result.is_filtered
    /\ result.detected_items = <<KwIp>>

(***************************************************************************)
(* C26: the text of a blocked message is never sent to the backend.  As    *)
(* claimed: a request whose message was blocked makes no backend call, and *)
(* no backend call of any request carries, as its message or in an entry   *)
(* of its conversation history, the message of a row that was stored with  *)
(* filtered = true.                                                        *)
(***************************************************************************)
C26_Original ==
    /\ (Did("filter") /\ chat.filtered) => chat.calls = <<>>
    /\ \A c \in 1..Len(chat.calls) :
           \A r \in 1..Len(chat_logs) :
               chat_logs[r].filtered =>
                   /\ chat.calls[c].message /= chat_logs[r].message
                   /\ \A e \in 1..Len(chat.calls[c].conversation_history) :
                          chat.calls[c].conversation_history[e].parts
                              /= <<chat_logs[r].message>>

\* The second request of a user, not blocked, called
\* generate_response_with_context with the blocked message of the first
\* request as the user entry of its history.
C26_BlockedInHistory ==
    /\ chat.served = 2
    /\ ~chat.filtered
    /\ Len(chat.calls) = 1
    /\ chat.calls[1].op = "generate_response_with_context"
    /\ chat.calls[1].conversation_history
           = << [role |-> "user", parts |-> <<KwHacking \o TokSsn>>],
                [role |-> "model", parts |-> <<RefusalText>>] >>
    /\ chat_logs[1].filtered

(***************************************************************************)
(* C27: with use_context set, the conversation history passed to the       *)
(* backend is built from the rows of the requesting user only, from at     *)
(* most context_limit of them, the most recently created ones, oldest      *)
(* first, each row giving its message as a user entry directly followed by *)
(* its response as a model entry; without use_context, or when the user    *)
(* has no earlier row, no history is passed and generate_response is       *)
(* called in place of generate_response_with_context.                      *)
(***************************************************************************)
\* The rows of the user that were in the table when the request arrived.
Mine ==
    {r \in 1..chat.rows_before :
        chat_logs[r].user_id = chat.request.user_id}

\* Those of them with fewer than context_limit later rows of the user.
Latest ==
    {r \in Mine :
        Cardinality({q \in Mine : q > r}) < chat.request.context_limit}

\* The k-th of them in the order of creation.
Nth(k) == CHOOSE r \in Latest : Cardinality({q \in Latest : q < r}) = k - 1

C27_History ==
    \A c \in 1..Len(chat.calls) :
        LET passed == chat.calls[c].conversation_history
        IN IF chat.request.use_context /\ Mine /= {}
           THEN /\ chat.calls[c].op = "generate_response_with_context"
                /\ Len(passed) = 2 * Cardinality(Latest)
                /\ Cardinality(Latest) <= chat.request.context_limit
                /\ \A k \in 1..Cardinality(Latest) :
                       /\ passed[2 * k - 1]
                              = [role |-> "user",
                                 parts |-> <<chat_logs[Nth(k)].message>>]
                       /\ passed[2 * k]
                              = [role |-> "model",
                                 parts |-> <<chat_logs[Nth(k)].response>>]
           ELSE /\ chat.calls[c].op = "generate_response"
                /\ passed = <<>>

\* A user with three earlier rows asked with context_limit = 1: the
\* history is the latest row alone.
C27_Witness ==
    /\ chat.request.use_context
    /\ chat.request.context_limit = 1
    /\ Cardinality(Mine) = 3
    /\ Len(chat.calls) = 1
    /\ chat.calls[1].op = "generate_response_with_context"
    /\ chat.calls[1].conversation_history
           = << [role |-> "user", parts |-> <<chat_logs[3].message>>],
                [role |-> "model", parts |-> <<chat_logs[3].response>>] >>
    /\ chat_logs[3].message /= chat_logs[2].message

(***************************************************************************)
(* C28: generate_response and generate_response_with_context let no       *)
(* exception through to chat().  A service that is not available returns   *)
(* the dummy response and does not call the API; when the API call raises, *)
(* the fixed apology is returned; so a request that was not blocked goes   *)
(* from the backend call to the persist step with a response string, and   *)
(* ends only after its commit was tried.                                   *)
(***************************************************************************)
C28_NoPropagation ==
    /\ \A c \in 1..Len(chat.calls) :
           /\ ~gemini_service.is_available =>
                  /\ chat.calls[c].api = "none"
                  /\ chat.ai_response
                         = _generate_dummy_response(chat.calls[c].message)
           /\ gemini_service.is_available =>
                  /\ chat.calls[c].api \in ApiOutcomes
                  /\ chat.ai_response \in BackendResponses
           /\ chat.calls[c].api = "raises" => chat.ai_response = ApologyText
    /\ Did("call") =>
           /\ IsString(chat.ai_response)
           /\ chat.ai_response /= <<>>
           /\ chat.pc \in {"persist", "respond", "done"}
    /\ (chat.pc = "done" /\ Did("filter") /\ ~chat.filtered
            /\ ~Did("read_failed")) =>
           /\ Did("call")
           /\ Did("commit") \/ Did("commit_failed")

\* The API call of a request with a history raised, and the request was
\* answered with the apology, which is also in its row.
C28_Witness ==
    /\ Responded
    /\ Len(chat.calls) = 1
    /\ chat.calls[1].op = "generate_response_with_context"
    /\ chat.calls[1].api = "raises"
    /\ chat.http.response = ApologyText
    /\ Row.response = ApologyText

\* C30: a successful upload_documents request hands one document to the
\* store for every entry of request.texts, so that the number its message
\* reports is the number of documents handed over, whatever the length of
\* metadatas.
C30_Original ==
    (upload.op = "upload_documents" /\ upload.http.status = 200)
        => /\ Len(upload.handed) = Len(upload.request.texts)
           /\ upload.http.body.message = Len(upload.handed)
           /\ \A i \in 1..Len(upload.handed) :
                  upload.handed[i].page_content = upload.request.texts[i]

\* Two texts with one metadata dict: the request succeeds and reports two
\* documents, and the store was handed the first text only.
C30_Dropped ==
    /\ upload.op = "upload_documents"
    /\ upload.http.status = 200
    /\ Len(upload.request.texts) = 2
    /\ upload.request.metadatas = Given(<<MetaOne>>)
    /\ upload.http.body.message = 2
    /\ Len(upload.handed) = 1
    /\ \A i \in 1..Len(rag_service.vectorstore.chunks) :
           rag_service.vectorstore.chunks[i].page_content /= TextShort

\* C29: when upload_file has answered, every file of the request is in
\* exactly one of uploaded_files and failed_files, in the order of the
\* request; success in the response is true exactly when a file was
\* uploaded; and failed_files is part of the response, with the failed
\* files, exactly when a file failed.
InUploaded(file) ==
    \E i \in 1..Len(upload.uploaded_files) :
        upload.uploaded_files[i] = file.filename
InFailed(file) ==
    \E i \in 1..Len(upload.failed_files) :
        upload.failed_files[i].filename = file.filename
C29_Original ==
    (upload.op = "upload_file" /\ upload.pc = "done"
                               /\ rag_service.is_initialized)
        => /\ upload.http.status = 200
           /\ Len(upload.uploaded_files) + Len(upload.failed_files)
                  = Len(upload.files)
           /\ \A i \in 1..Len(upload.files) :
                  InUploaded(upload.files[i]) /= InFailed(upload.files[i])
           /\ upload.http.body.success = (Len(upload.uploaded_files) > 0)
           /\ ("failed_files" \in DOMAIN upload.http.body)
                  = (upload.failed_files /= <<>>)

\* A blank file failed and the file after it was uploaded: the handler
\* returned the dict with failed_files, and the body the client got has
\* no such key.
C29_FailedFilesMissing ==
    /\ upload.op = "upload_file"
    /\ upload.pc = "done"
    /\ upload.http.status = 200
    /\ upload.files = <<FileBlank, FileText>>
    /\ upload.uploaded_files = <<FileText.filename>>
    /\ Len(upload.failed_files) = 1
    /\ upload.returned.failed_files = upload.failed_files
    /\ "failed_files" \notin DOMAIN upload.http.body
    /\ upload.http.body.success

====
